---- MODULE Spec2Model ----
(***************************************************************************)
(* Model of the MRC running-bingo board picker (docs/picker.js) and of the *)
(* dashboard's label map (the boards page script): the card catalog, the   *)
(* tier/variant rules, validateSelection / validateBoard, generateBoard,   *)
(* the picker's event handlers, and the seeded label shuffle.              *)
(*                                                                         *)
(* Conventions                                                             *)
(*  - a card id is the string of CARD_DEFS ("A01" .. "W04"); null is the   *)
(*    JavaScript null of an empty slot / no active card;                   *)
(*  - a board (state.placements) is a function 0..24 -> id or null,        *)
(*    row-major, exactly the indices the code uses;                        *)
(*  - a JavaScript array other than the board is a sequence; index i of    *)
(*    the code is index i+1 here;                                          *)
(*  - state.selectedIds (a Set, iterated in insertion order) is a sequence *)
(*    without duplicates;                                                  *)
(*  - an error list is a sequence of message codes, one code per message   *)
(*    text of the source (see the Msg definitions).                        *)
(***************************************************************************)
EXTENDS Integers, Sequences, FiniteSets, TLC

VARIABLES
    tier,          \* state.tier
    variantW,      \* state.variantW
    selectedIds,   \* state.selectedIds, in insertion order
    placements,    \* state.placements
    activeCardId,  \* state.activeCardId
    sent,          \* the POST bodies the last step issued
    candidate,     \* the argument of a validateBoardAgainst call
    candErrors,    \* what that call returned
    edits,         \* number of slot writes that built the candidate
    genResult,     \* <<>> or <<r>>, r the value of the last generateBoard call
    session,       \* the inputs the user's clicks range over
    cards,         \* state.cards
    labelSeed,     \* the season seed, a sequence of UTF-16 code units
    cardDeck,      \* the keys of the dashboard's card deck, in listing order
    labelMap,      \* <<>> or <<c>>, c the last buildLabelMap call and result
    prevLabelMap,  \* the same for the call before it
    gen,           \* a generateBoard call in progress: its position and locals
    labelMapCache, \* the dashboard's labelMapCache: its entries in set order
    cardDeckPromise, \* the dashboard's cardDeckPromise: "none", "pending", "settled"
    applied,       \* the applyLabelMapIfNeeded calls suspended or just returned
    form,          \* the submit page: claims, token event, address, files, group names
    loads,         \* the boards page: its loadBoards runs, allBoards, progressLookup
    deckLoad,      \* the boards page: cardDeckCache, cardDeckPromise, the deck fetches
    submits        \* the submit page: its handleSubmit runs and the submit button

vars == <<tier, variantW, selectedIds, placements, activeCardId, sent,
          candidate, candErrors, edits, genResult, session,
          cards, labelSeed, cardDeck, labelMap, prevLabelMap, gen,
          labelMapCache, cardDeckPromise, applied, form,
                loads, deckLoad, submits>>

null == "null"

Range(s) == {s[i] : i \in DOMAIN s}

(***************************************************************************)
(* The catalog: picker.js CARD_DEFS.                                       *)
(***************************************************************************)
CARD_DEFS == <<
    [id |-> "A01", type |-> "A", stars |-> 1],
    [id |-> "A02", type |-> "A", stars |-> 2],
    [id |-> "A03", type |-> "A", stars |-> 2],
    [id |-> "A04", type |-> "A", stars |-> 1],
    [id |-> "A05", type |-> "A", stars |-> 2],
    [id |-> "A06", type |-> "A", stars |-> 1],
    [id |-> "A07", type |-> "A", stars |-> 1],
    [id |-> "A08", type |-> "A", stars |-> 1],
    [id |-> "A09", type |-> "A", stars |-> 2],
    [id |-> "A10", type |-> "A", stars |-> 2],
    [id |-> "A11", type |-> "A", stars |-> 2],
    [id |-> "A12", type |-> "A", stars |-> 2],
    [id |-> "A13", type |-> "A", stars |-> 2],
    [id |-> "A14", type |-> "A", stars |-> 1],
    [id |-> "B01", type |-> "B", stars |-> 1],
    [id |-> "B02", type |-> "B", stars |-> 2],
    [id |-> "B03", type |-> "B", stars |-> 2],
    [id |-> "B04", type |-> "B", stars |-> 2],
    [id |-> "B05", type |-> "B", stars |-> 1],
    [id |-> "B06", type |-> "B", stars |-> 2],
    [id |-> "B07", type |-> "B", stars |-> 2],
    [id |-> "B08", type |-> "B", stars |-> 1],
    [id |-> "B09", type |-> "B", stars |-> 1],
    [id |-> "B10", type |-> "B", stars |-> 1],
    [id |-> "C01", type |-> "C", stars |-> 1],
    [id |-> "C02", type |-> "C", stars |-> 2],
    [id |-> "C03", type |-> "C", stars |-> 1],
    [id |-> "C04", type |-> "C", stars |-> 2],
    [id |-> "C05", type |-> "C", stars |-> 1],
    [id |-> "C06", type |-> "C", stars |-> 2],
    [id |-> "C07", type |-> "C", stars |-> 2],
    [id |-> "C08", type |-> "C", stars |-> 1],
    [id |-> "C09", type |-> "C", stars |-> 1],
    [id |-> "D01", type |-> "D", stars |-> 3],
    [id |-> "D02", type |-> "D", stars |-> 3],
    [id |-> "D03", type |-> "D", stars |-> 3],
    [id |-> "D04", type |-> "D", stars |-> 3],
    [id |-> "D05", type |-> "D", stars |-> 3],
    [id |-> "W01", type |-> "W", stars |-> 3],
    [id |-> "W02", type |-> "W", stars |-> 3],
    [id |-> "W03", type |-> "W", stars |-> 3],
    [id |-> "W04", type |-> "W", stars |-> 3] >>

CardIds == {CARD_DEFS[i].id : i \in DOMAIN CARD_DEFS}

\* state.cardsById, restricted to the fields the rules read (init, line 934)
cardsById == [id \in CardIds |->
                 (CHOOSE c \in Range(CARD_DEFS) : c.id = id)]

\* Object.keys order of every { A, B, C, D, W } literal of the source
TypeKeys == <<"A", "B", "C", "D", "W">>

Tiers == {"beginner", "intermediate", "advanced"}

BASE_COUNTS == [A |-> 10, B |-> 7, C |-> 5, D |-> 2, W |-> 1]

VARIANT_COUNTS == [
    intermediate |-> [A |-> 10, B |-> 7, C |-> 5, D |-> 1, W |-> 2],
    advanced     |-> [A |-> 9,  B |-> 6, C |-> 5, D |-> 2, W |-> 3] ]

corners == <<0, 4, 20, 24>>

centerIndex == 12

Slots == 0 .. 24

EmptyBoard == [idx \in Slots |-> null]

(***************************************************************************)
(* BoardRules                                                              *)
(***************************************************************************)
getRequiredCountsExtraWild(t, v) ==
    IF ~v \/ t = "beginner" THEN BASE_COUNTS
    ELSE IF t = "intermediate" THEN [BASE_COUNTS EXCEPT !.W = 2]
    ELSE [BASE_COUNTS EXCEPT !.W = 3]

getRequiredCounts(t, v) ==
    IF ~v THEN BASE_COUNTS
    ELSE IF t = "intermediate" THEN VARIANT_COUNTS.intermediate
    ELSE IF t = "advanced" THEN VARIANT_COUNTS.advanced
    ELSE BASE_COUNTS

getWModeIgnoreVariant(t, v) ==
    IF t = "beginner" THEN [count |-> 1, mode |-> "center"]
    ELSE IF t = "intermediate" THEN [count |-> 2, mode |-> "center+corner"]
    ELSE [count |-> 3, mode |-> "center+diagonal"]

getWMode(t, v) ==
    IF ~v \/ t = "beginner" THEN [count |-> 1, mode |-> "center"]
    ELSE IF t = "intermediate" THEN [count |-> 2, mode |-> "center+corner"]
    ELSE [count |-> 3, mode |-> "center+diagonal"]

getPlacementIndex(row, col) == row * 5 + col

getRowCol(idx) == [row |-> idx \div 5, col |-> idx % 5]

isCornerTopRowOnly(idx) == idx \in {corners[1], corners[2]}

isCorner(idx) == idx \in Range(corners)

getAdjacentIndicesWrap(idx) ==
    LET rc == getRowCol(idx)
    IN  (IF rc.row > 0 THEN <<getPlacementIndex(rc.row - 1, rc.col)>> ELSE <<>>)
        \o (IF rc.row < 4 THEN <<getPlacementIndex(rc.row + 1, rc.col)>> ELSE <<>>)
        \o (IF idx > 0 THEN <<idx - 1>> ELSE <<>>)
        \o (IF idx < 24 THEN <<idx + 1>> ELSE <<>>)

getAdjacentIndices(idx) ==
    LET rc == getRowCol(idx)
    IN  (IF rc.row > 0 THEN <<getPlacementIndex(rc.row - 1, rc.col)>> ELSE <<>>)
        \o (IF rc.row < 4 THEN <<getPlacementIndex(rc.row + 1, rc.col)>> ELSE <<>>)
        \o (IF rc.col > 0 THEN <<getPlacementIndex(rc.row, rc.col - 1)>> ELSE <<>>)
        \o (IF rc.col < 4 THEN <<getPlacementIndex(rc.row, rc.col + 1)>> ELSE <<>>)

\* the type of the card in slot idx of board p, or null for an empty slot
\* (the recurring  id && state.cardsById[id].type  of the source)
slotType(p, idx) == IF p[idx] = null THEN null ELSE cardsById[p[idx]].type

getSelectedCounts(sel) ==
    [ty \in Range(TypeKeys) |->
        Cardinality({i \in DOMAIN sel : cardsById[sel[i]].type = ty})]

(***************************************************************************)
(* Message codes: one per message text pushed by validateSelection and     *)
(* validateBoard.                                                          *)
(***************************************************************************)
MsgIncomplete   == "INCOMPLETE"      \* line 674
MsgWCount       == "W_COUNT"         \* line 681 (the text carries wMode.count)
MsgCenterNotW   == "CENTER_NOT_W"    \* line 683
MsgWPosition    == "W_POSITION"      \* line 686
MsgWOneCorner   == "W_ONE_CORNER"    \* line 690
MsgWTwoCorners  == "W_TWO_CORNERS"   \* line 695
MsgWDiagonal    == "W_DIAGONAL"      \* line 700
MsgDCorner      == "D_CORNER"        \* line 707
MsgCAdjacent    == "C_ADJACENT"      \* line 720

\* slots 0..24 in ascending order, as Array.prototype.map/forEach visit them
SlotSeq == [i \in 1 .. 25 |-> i - 1]

validateSelection(sel, t, v) ==
    LET required == getRequiredCounts(t, v)
        counts   == getSelectedCounts(sel)
        bad(ty)  == counts[ty] # required[ty]
    IN  [i \in 1 .. Len(SelectSeq(TypeKeys, bad)) |->
            [type |-> SelectSeq(TypeKeys, bad)[i],
             expected |-> required[SelectSeq(TypeKeys, bad)[i]],
             actual |-> counts[SelectSeq(TypeKeys, bad)[i]]]]

diagOkAnyPair(cornersPlaced) ==
    Len(cornersPlaced) = 2

\* lines 697-699: the two corner Wilds are the ends of one diagonal
diagOk(cornersPlaced) ==
    \/ (0 \in Range(cornersPlaced) /\ 24 \in Range(cornersPlaced))
    \/ (4 \in Range(cornersPlaced) /\ 20 \in Range(cornersPlaced))

\* line 674: completeness
errIncomplete(p) ==
    IF \E idx \in Slots : p[idx] = null THEN <<MsgIncomplete>> ELSE <<>>

\* lines 676-702: Wild count, centre occupancy, Wild positions, corner rules,
\* in the order the source pushes them
errWild(p, t, v) ==
    LET wMode    == getWMode(t, v)
        isW(idx) == slotType(p, idx) = "W"
        wIndices == SelectSeq(SlotSeq, isW)
        allowedW == IF wMode.mode = "center" THEN {centerIndex}
                    ELSE {centerIndex} \cup Range(corners)
        notAllowed(idx) == idx \notin allowedW
        cornersPlaced   == SelectSeq(wIndices, isCorner)
    IN  (IF Len(wIndices) # wMode.count THEN <<MsgWCount>> ELSE <<>>)
        \o (IF centerIndex \notin Range(wIndices) THEN <<MsgCenterNotW>> ELSE <<>>)
        \o [i \in 1 .. Len(SelectSeq(wIndices, notAllowed)) |-> MsgWPosition]
        \o (IF wMode.mode = "center+corner" /\ Len(cornersPlaced) # 1
            THEN <<MsgWOneCorner>> ELSE <<>>)
        \o (IF wMode.mode = "center+diagonal"
            THEN (IF Len(cornersPlaced) # 2 THEN <<MsgWTwoCorners>>
                  ELSE IF ~diagOk(cornersPlaced) THEN <<MsgWDiagonal>> ELSE <<>>)
            ELSE <<>>)

errDCornerUnlessIncomplete(p) ==
    LET isDCorner(idx) == slotType(p, idx) = "D" /\ isCorner(idx)
    IN  IF \E idx \in Slots : p[idx] = null THEN <<>>
        ELSE [i \in 1 .. Len(SelectSeq(SlotSeq, isDCorner)) |-> MsgDCorner]

\* lines 704-708: one message per D card on a corner
errDCorner(p) ==
    LET isDCorner(idx) == slotType(p, idx) = "D" /\ isCorner(idx)
    IN  [i \in 1 .. Len(SelectSeq(SlotSeq, isDCorner)) |-> MsgDCorner]

\* getAdjacentIndices(idx) for every slot
adjacentIndices == [idx \in Slots |-> getAdjacentIndices(idx)]

\* lines 715-718: some neighbour of idx holds a C card
hasAdjacentC(p, idx) ==
    \E k \in DOMAIN adjacentIndices[idx] :
        slotType(p, adjacentIndices[idx][k]) = "C"

\* lines 710-723: one message at the first C slot with a C neighbour, then break
errCAdjacent(p) ==
    IF \E idx \in Slots : slotType(p, idx) = "C" /\ hasAdjacentC(p, idx)
    THEN <<MsgCAdjacent>> ELSE <<>>

validateBoardDFirst(p, t, v) ==
    errIncomplete(p) \o errDCorner(p) \o errWild(p, t, v) \o errCAdjacent(p)

\* lines 672-726
validateBoard(p, t, v) ==
    errIncomplete(p) \o errWild(p, t, v) \o errDCorner(p) \o errCAdjacent(p)

\* validateBoardAgainst swaps state.placements for the candidate, validates,
\* and swaps back (lines 872-878)
validateBoardAgainst(p, t, v) == validateBoard(p, t, v)

placementsAfterValidateNoRestore(previous, p) == p

\* state.placements after validateBoardAgainst(p): line 874 makes it p for
\* the time of the validateBoard call, line 876 makes it previous again
placementsAfterValidate(previous, p) ==
    LET duringCall == p
        afterCall  == previous
    IN  afterCall

(***************************************************************************)
(* 32-bit integer arithmetic of JavaScript (Math.imul, ^, |, >>>, and +    *)
(* followed by a conversion to 32 bits).  A 32-bit word is the pair        *)
(* <<hi, lo>> of its 16-bit halves.                                        *)
(***************************************************************************)
Word16 == 0 .. 65535

Word32 == Word16 \X Word16

Pow2(k) ==
    <<1, 2, 4, 8, 16, 32, 64, 128, 256, 512, 1024, 2048, 4096, 8192, 16384,
      32768, 65536>>[k + 1]

\* bit k of a
Bit(a, k) == (a \div Pow2(k)) % 2

\* a ^ b on four bits
XorNibble ==
    [a \in 0 .. 15, b \in 0 .. 15 |->
        ((Bit(a, 0) + Bit(b, 0)) % 2) + 2 * ((Bit(a, 1) + Bit(b, 1)) % 2)
            + 4 * ((Bit(a, 2) + Bit(b, 2)) % 2)
            + 8 * ((Bit(a, 3) + Bit(b, 3)) % 2)]

\* a ^ b on sixteen bits
BitXor ==
    [a \in Word16, b \in Word16 |->
        XorNibble[a % 16, b % 16]
            + 16 * XorNibble[(a \div 16) % 16, (b \div 16) % 16]
            + 256 * XorNibble[(a \div 256) % 16, (b \div 256) % 16]
            + 4096 * XorNibble[a \div 4096, b \div 4096]]

\* a | b on sixteen bits: a + b - (a & b), and a & b = (a + b - (a ^ b)) / 2
BitOr == [a \in Word16, b \in Word16 |-> (a + b + BitXor[a, b]) \div 2]

Xor32 == [x \in Word32, y \in Word32 |-> <<BitXor[x[1], y[1]], BitXor[x[2], y[2]]>>]

\* x | c for a constant c below 65536
Or32 == [x \in Word32, c \in Word16 |-> <<x[1], BitOr[x[2], c]>>]

\* x >>> k for 0 < k < 16
Shr32 ==
    [x \in Word32, k \in 1 .. 15 |->
        << x[1] \div Pow2(k),
           (x[2] \div Pow2(k)) + (x[1] % Pow2(k)) * Pow2(16 - k) >>]

\* (x + y) converted to 32 bits
Add32 ==
    [x \in Word32, y \in Word32 |->
        << (x[1] + y[1] + ((x[2] + y[2]) \div 65536)) % 65536,
           (x[2] + y[2]) % 65536 >>]

\* the 32-bit product of two 16-bit numbers, computed on 8-bit digits
Mul16 ==
    [a \in Word16, b \in Word16 |->
        LET a1 == a \div 256
            a0 == a % 256
            b1 == b \div 256
            b0 == b % 256
            p1 == a1 * b0 + a0 * b1
            low == a0 * b0 + (p1 % 256) * 256
        IN  << a1 * b1 + (p1 \div 256) + (low \div 65536), low % 65536 >>]

\* Math.imul(x, y): the low 32 bits of the product
Imul32 ==
    [x \in Word32, y \in Word32 |->
        << (Mul16[x[2], y[2]][1] + Mul16[x[1], y[2]][2] + Mul16[x[2], y[1]][2])
               % 65536,
           Mul16[x[2], y[2]][2] >>]

\* Math.floor((u / 4294967296) * n) for a 32-bit u and a small n
FloorTimes32 ==
    [u \in Word32, n \in 1 .. 256 |->
        (u[1] * n + ((u[2] * n) \div 65536)) \div 65536]

(***************************************************************************)
(* picker.js hashString and mulberry32 (lines 346-362).  A string is the   *)
(* sequence of its UTF-16 code units; the state of the generator returned  *)
(* by mulberry32 is its captured variable seed.                            *)
(***************************************************************************)
\* the loop of hashString; st holds its variables h and i
RECURSIVE hashFromP(_, _)
hashFromP(str, st) ==
    IF st.i > Len(str) THEN st.h
    ELSE hashFromP(str,
             [h |-> Imul32[Xor32[st.h, <<0, str[st.i]>>], <<256, 403>>],
              i |-> st.i + 1])

\* h = 2166136261; per character h ^= code, h = Math.imul(h, 16777619)
hashStringP(str) == hashFromP(str, [h |-> <<33052, 40389>>, i |-> 1])

\* seed += 0x6d2b79f5
mulberry32StepP == [seed \in Word32 |-> Add32[seed, <<27947, 31221>>]]

\* t = Math.imul(t ^ (t >>> 15), t | 1)
mulberry32MixP == [t \in Word32 |-> Imul32[Xor32[t, Shr32[t, 15]], Or32[t, 1]]]

\* t ^= t + Math.imul(t ^ (t >>> 7), t | 61)
mulberry32AddP ==
    [t \in Word32 |->
        Xor32[t, Add32[t, Imul32[Xor32[t, Shr32[t, 7]], Or32[t, 61]]]]]

\* the 32-bit integer a call returns over 4294967296, from the new seed
mulberry32OutP ==
    [seed \in Word32 |->
        Xor32[mulberry32AddP[mulberry32MixP[seed]],
              Shr32[mulberry32AddP[mulberry32MixP[seed]], 14]]]

\* mulberry32(seed): the generator is its captured variable seed
mulberry32P(seed) == seed

(***************************************************************************)
(* Math.random.  The values its calls return are inputs of a handler run:  *)
(* any sequence of numbers in [0, 1) can come.  The specifications try the *)
(* sequences of the table RandStreams: NumRandSeeds sequences, numbered by *)
(* RandSeeds, of RandModulus values each, given as numerators over         *)
(* RandModulus and read round and round.  Sequence n starts with           *)
(* (37 n + 5) mod RandModulus and each value v is followed by              *)
(* (141 v + 3) mod RandModulus, which spreads the values over [0, 1) and   *)
(* gives the sequences different first values; the engine's own sequences  *)
(* are not of this form.  deadEndAhead covers every outcome of the picks   *)
(* of generateBoard's C cards, whatever the draws.                         *)
(*                                                                         *)
(* A random source r is a place in the table: sequence r \div RandModulus, *)
(* position r % RandModulus.  A result carries the source after its last   *)
(* draw in field rng.                                                      *)
(***************************************************************************)
RandModulus == 256

NumRandSeeds == 16

RandSeeds == 0 .. NumRandSeeds - 1

\* the len values from v on: the first half, then the values that follow it
RECURSIVE sampleValues(_, _)
sampleValues(v, len) ==
    IF len = 0 THEN <<>>
    ELSE IF len = 1 THEN <<v>>
    ELSE LET half == len \div 2
             last == CHOOSE s \in {sampleValues(v, half)} : TRUE
         IN  last \o sampleValues((last[half] * 141 + 3) % RandModulus,
                                  len - half)

RECURSIVE sampleStreams(_)
sampleStreams(n) ==
    IF n = NumRandSeeds THEN <<>>
    ELSE << sampleValues((n * 37 + 5) % RandModulus, RandModulus) >>
         \o sampleStreams(n + 1)

\* sequence number n is RandStreams[n + 1]
RandStreams == sampleStreams(0)

\* the random source of a handler run that reads sequence number n
RandStart(n) == n * RandModulus

\* the numerator of the value the next rng() call returns
RandValue(r) ==
    RandStreams[(r \div RandModulus) + 1][(r % RandModulus) + 1]

\* the source after one more rng() call
RandNext(r) == (r \div RandModulus) * RandModulus + ((r + 1) % RandModulus)

\* Math.floor(rng() * n)
RandIndex(r, n) == (RandValue(r) * n) \div RandModulus

\* rng() < 0.5
RandBelowHalf(r) == 2 * RandValue(r) < RandModulus

\* [array[i], array[j]] = [array[j], array[i]], on 1-based positions
Swap(array, i, j) ==
    [array EXCEPT ![i] = array[j], ![j] = array[i]]

\* the loop of shuffle (lines 365-368); st holds array, i and the generator
RECURSIVE shuffleFrom(_)
shuffleFrom(st) ==
    IF st.i <= 0 THEN [array |-> st.array, rng |-> st.rng]
    ELSE shuffleFrom(
             [array |-> Swap(st.array, st.i + 1, RandIndex(st.rng, st.i + 1) + 1),
              i     |-> st.i - 1,
              rng   |-> RandNext(st.rng)])

shuffle(array, r) == shuffleFrom([array |-> array, i |-> Len(array) - 1, rng |-> r])

\* the same loop of shuffle when rng is a mulberry32 generator
RECURSIVE shuffleSeededFrom(_)
shuffleSeededFrom(st) ==
    IF st.i <= 0 THEN [array |-> st.array, rng |-> st.rng]
    ELSE shuffleSeededFrom(
             [array |-> Swap(st.array, st.i + 1,
                             FloorTimes32[mulberry32OutP[mulberry32StepP[st.rng]],
                                          st.i + 1] + 1),
              i     |-> st.i - 1,
              rng   |-> mulberry32StepP[st.rng]])

shuffleSeeded(array, seed) ==
    shuffleSeededFrom([array |-> array, i |-> Len(array) - 1, rng |-> seed])

(***************************************************************************)
(* generateBoard (lines 804-870), stage by stage.                          *)
(***************************************************************************)
CAttempts == 200

\* the selected cards of one type, in selection order (lines 809-810)
cardsOfType(sel, ty) ==
    SelectSeq(sel, LAMBDA id : cardsById[id].type = ty)

\* the empty slots of a board, ascending (lines 827-829, 841-843, 860)
emptySlotsOf(board) ==
    SelectSeq(SlotSeq, LAMBDA idx : board[idx] = null)

\* board with ids[i] written to targets[i] for every i both have
\* (the forEach loops guarded by  !== undefined  / by wCards[idx])
assignInOrder(board, targets, ids) ==
    [idx \in Slots |->
        IF \E i \in 1 .. Len(targets) : i <= Len(ids) /\ targets[i] = idx
        THEN ids[CHOOSE i \in 1 .. Len(targets) :
                       i <= Len(ids) /\ targets[i] = idx]
        ELSE board[idx]]

\* lines 812-824: the Wild positions and the Wild cards on them
genPlaceW(sel, t, v, r) ==
    LET wMode == getWMode(t, v)
        pick  == IF wMode.mode = "center+corner"
                 THEN <<corners[RandIndex(r, Len(corners)) + 1]>>
                 ELSE IF wMode.mode = "center+diagonal"
                 THEN (IF RandBelowHalf(r) THEN <<0, 24>> ELSE <<4, 20>>)
                 ELSE <<>>
        r1    == IF wMode.mode = "center" THEN r ELSE RandNext(r)
        wCards == shuffle(cardsOfType(sel, "W"), r1)
    IN  [board |-> assignInOrder(EmptyBoard, <<centerIndex>> \o pick, wCards.array),
         rng |-> wCards.rng]

\* lines 826-833: the D cards on shuffled empty non-corner slots
genPlaceD(sel, board, r) ==
    LET dCards   == shuffle(cardsOfType(sel, "D"), r)
        dTargets == shuffle(SelectSeq(emptySlotsOf(board),
                                      LAMBDA idx : ~isCorner(idx)), dCards.rng)
    IN  [board |-> assignInOrder(board, dTargets.array, dCards.array),
         rng |-> dTargets.rng]

isCandidateNoDiagonal(temp, idx) ==
    /\ temp[idx] = null
    /\ \A k \in Slots :
          (slotType(temp, k) = "C")
              => ~(/\ (idx \div 5) - (k \div 5) \in -1 .. 1
                   /\ (idx % 5) - (k % 5) \in -1 .. 1)

\* lines 841-844: idx passes the two filters, it is empty and has no C
\* neighbour
isCandidate(temp, idx) == temp[idx] = null /\ ~hasAdjacentC(temp, idx)

\* lines 841-844: the candidates, ascending
candidatesOf(temp) == SelectSeq(SlotSeq, LAMBDA idx : isCandidate(temp, idx))

\* lines 840-851: one trial; card k of cCards goes to a random empty slot
\* with no C neighbour, or the trial is abandoned; st holds temp, k and the
\* generator
RECURSIVE genTrialC(_, _)
genTrialC(cCards, st) ==
    IF st.k > Len(cCards) THEN [ok |-> TRUE, board |-> st.temp, rng |-> st.rng]
    ELSE LET candidates == candidatesOf(st.temp)
         IN  IF Len(candidates) = 0
             THEN [ok |-> FALSE, board |-> st.temp, rng |-> st.rng]
             ELSE genTrialC(cCards,
                    [temp |-> [st.temp EXCEPT
                                  ![candidates[RandIndex(st.rng, Len(candidates)) + 1]]
                                      = cCards[st.k]],
                     k    |-> st.k + 1,
                     rng  |-> RandNext(st.rng)])

\* lines 837-856: up to CAttempts trials, each from a copy of the board; st
\* holds attempt and the generator
RECURSIVE genAttemptsC(_, _, _)
genAttemptsC(board, cCards, st) ==
    IF st.attempt >= CAttempts
    THEN [ok |-> FALSE, board |-> board, rng |-> st.rng, attempts |-> st.attempt]
    ELSE LET trial == genTrialC(cCards, [temp |-> board, k |-> 1, rng |-> st.rng])
         IN  IF trial.ok
             THEN [ok |-> TRUE, board |-> trial.board, rng |-> trial.rng,
                   attempts |-> st.attempt + 1]
             ELSE genAttemptsC(board, cCards,
                               [attempt |-> st.attempt + 1, rng |-> trial.rng])

\* lines 835-857
genPlaceC(sel, board, r) ==
    LET cCards == shuffle(cardsOfType(sel, "C"), r)
    IN  genAttemptsC(board, cCards.array, [attempt |-> 0, rng |-> cCards.rng])

\* lines 859-864: the rest of the selection on the empty slots, ascending
genFill(sel, boardWithC, r) ==
    LET remaining == shuffle(SelectSeq(sel,
                        LAMBDA id : \A idx \in Slots : boardWithC[idx] # id), r)
    IN  [board |-> assignInOrder(boardWithC, emptySlotsOf(boardWithC),
                                 remaining.array),
         rng |-> remaining.rng]

genAcceptsUnchecked(board, t, v) ==
    \A idx \in Slots : board[idx] # null

\* lines 866-868: the board is returned only when full and without errors
genAccepts(board, t, v) ==
    /\ \A idx \in Slots : board[idx] # null
    /\ Len(validateBoardAgainst(board, t, v)) = 0

\* the value generateBoard returns: ok = FALSE stands for null
generateBoard(sel, t, v, r) ==
    LET w == genPlaceW(sel, t, v, r)
        d == genPlaceD(sel, w.board, w.rng)
        c == genPlaceC(sel, d.board, d.rng)
        f == genFill(sel, c.board, c.rng)
    IN  IF ~c.ok THEN [ok |-> FALSE, board |-> EmptyBoard, rng |-> c.rng]
        ELSE IF ~genAccepts(f.board, t, v)
        THEN [ok |-> FALSE, board |-> EmptyBoard, rng |-> f.rng]
        ELSE [ok |-> TRUE, board |-> f.board, rng |-> f.rng]

CatalogIds == [i \in DOMAIN CARD_DEFS |-> CARD_DEFS[i].id]

FirstOfType(ty, n) == SubSeq(cardsOfType(CatalogIds, ty), 1, n)

SelectionFor(counts) ==
    FirstOfType("A", counts.A) \o FirstOfType("B", counts.B)
        \o FirstOfType("C", counts.C) \o FirstOfType("D", counts.D)
        \o FirstOfType("W", counts.W)

Reverse(seq) == [i \in 1 .. Len(seq) |-> seq[Len(seq) + 1 - i]]

(***************************************************************************)
(* Card codes as text.  The codes of CARD_DEFS are a type letter followed  *)
(* by the two-digit position of the card inside its type.                  *)
(***************************************************************************)
TypeLetter == [A |-> 65, B |-> 66, C |-> 67, D |-> 68, W |-> 87]

\* the number a code ends with: the position of the card inside its type
idNumber ==
    [id \in CardIds |->
        CHOOSE n \in 1 .. Len(CARD_DEFS) :
            /\ n <= Len(cardsOfType(CatalogIds, cardsById[id].type))
            /\ cardsOfType(CatalogIds, cardsById[id].type)[n] = id]

\* the UTF-16 code units of a card code
charCodes ==
    [id \in CardIds |->
        << TypeLetter[cardsById[id].type],
           48 + (idNumber[id] \div 10), 48 + (idNumber[id] % 10) >>]

\* a < b for strings, compared code unit by code unit
unitsLess(a, b) ==
    \E k \in 1 .. Len(b) :
        /\ \A j \in 1 .. (k - 1) : j <= Len(a) /\ a[j] = b[j]
        /\ (k > Len(a) \/ a[k] < b[k])

\* the content of a Map after the writes set(w[1], w[2]), in order
MapOfWrites(writes) ==
    [k \in {writes[i][1] : i \in DOMAIN writes} |->
        writes[CHOOSE i \in DOMAIN writes :
                   /\ writes[i][1] = k
                   /\ \A j \in DOMAIN writes : writes[j][1] = k => j <= i][2]]

(***************************************************************************)
(* picker.js buildCards (lines 372-386).                                   *)
(***************************************************************************)
SEASON_SEED == <<50, 48, 50, 53, 87>>

\* a.id.localeCompare(b.id) < 0; on codes made of one capital letter and
\* digits the collation order is the order of the code units
localeCompareLess(a, b) == unitsLess(charCodes[a], charCodes[b])

\* byType[type].sort((a, b) => b.id.localeCompare(a.id))
sortByIdDescending(ids) ==
    [i \in 1 .. Len(ids) |->
        CHOOSE x \in Range(ids) :
            Cardinality({y \in Range(ids) : localeCompareLess(x, y)}) = i - 1]

\* byType[type].sort((a, b) => a.id.localeCompare(b.id)), on distinct ids
sortById(ids) ==
    [i \in 1 .. Len(ids) |->
        CHOOSE x \in Range(ids) :
            Cardinality({y \in Range(ids) : localeCompareLess(y, x)}) = i - 1]

\* card.label = labels[idx] for the cards of one type (lines 381-383), as
\* the writes <<card id, label>>
assignLabels(ids, labels) == [idx \in 1 .. Len(ids) |-> <<ids[idx], labels[idx]>>]

\* the Object.keys(byType).forEach loop from type number k on (lines 377-384)
RECURSIVE buildCardsFrom(_)
buildCardsFrom(st) ==
    IF st.k > Len(TypeKeys) THEN st.writes
    ELSE LET ids == sortById(cardsOfType(CatalogIds, TypeKeys[st.k]))
             sh  == shuffleSeeded(ids, st.rng)
         IN  buildCardsFrom([k      |-> st.k + 1,
                             rng    |-> sh.rng,
                             writes |-> st.writes \o assignLabels(ids, sh.array)])

buildCards(seed) ==
    LET labelOf == MapOfWrites(
                       buildCardsFrom([k |-> 1, writes |-> <<>>,
                                       rng |-> mulberry32P(hashStringP(seed))]))
    IN  [i \in DOMAIN CARD_DEFS |->
            [id |-> CARD_DEFS[i].id, type |-> CARD_DEFS[i].type,
             stars |-> CARD_DEFS[i].stars, label |-> labelOf[CARD_DEFS[i].id]]]

(***************************************************************************)
(* The dashboard's label map (boards script, lines 79-162).  The generator *)
(* returned by mulberry32 is its captured variable seed.                   *)
(***************************************************************************)
RECURSIVE hashFrom(_, _)
hashFrom(value, st) ==
    IF st.i > Len(value) THEN st.h
    ELSE hashFrom(value,
             [h |-> Imul32[Xor32[st.h, <<0, value[st.i]>>], <<256, 403>>],
              i |-> st.i + 1])

hashString(value) == hashFrom(value, [h |-> <<33052, 40389>>, i |-> 1])

\* mulberry32(seed)
mulberry32(seed) == seed

\* seed += 0x6d2b79f5
mulberry32Step == [seed \in Word32 |-> Add32[seed, <<27947, 31221>>]]

\* t = Math.imul(t ^ (t >>> 15), t | 1)
mulberry32Mix == [t \in Word32 |-> Imul32[Xor32[t, Shr32[t, 15]], Or32[t, 1]]]

\* t ^= t + Math.imul(t ^ (t >>> 7), t | 61)
mulberry32Add ==
    [t \in Word32 |->
        Xor32[t, Add32[t, Imul32[Xor32[t, Shr32[t, 7]], Or32[t, 61]]]]]

\* the 32-bit integer a call returns over 4294967296, from the new seed
mulberry32Out ==
    [seed \in Word32 |->
        Xor32[mulberry32Add[mulberry32Mix[seed]],
              Shr32[mulberry32Add[mulberry32Mix[seed]], 14]]]

\* items[i] = items[j] alone
swapItemsOverwrite(items, i, j) == [items EXCEPT ![i] = items[j]]

\* [items[i], items[j]] = [items[j], items[i]], on 1-based positions
swapItems(items, i, j) == [items EXCEPT ![i] = items[j], ![j] = items[i]]

\* the loop of shuffleInPlace; st holds items, i and the generator
RECURSIVE shuffleInPlaceFrom(_)
shuffleInPlaceFrom(st) ==
    IF st.i <= 0 THEN [items |-> st.items, rng |-> st.rng]
    ELSE shuffleInPlaceFrom(
             [items |-> swapItems(st.items, st.i + 1,
                            FloorTimes32[mulberry32Out[mulberry32Step[st.rng]],
                                         st.i + 1] + 1),
              i     |-> st.i - 1,
              rng   |-> mulberry32Step[st.rng]])

shuffleInPlace(items, rng) ==
    shuffleInPlaceFrom([items |-> items, i |-> Len(items) - 1, rng |-> rng])

\* every code pushed to codesByType.A
codesOfTypeOneBucket(deck, ty) == IF ty = "A" THEN deck ELSE <<>>

\* codesByType[type] after the loop over cardDeck.keys() (lines 145-148)
codesOfType(deck, ty) ==
    SelectSeq(deck, LAMBDA code : charCodes[code][1] = TypeLetter[ty])

\* codesByType[type].slice() left as listed
sortCodesNot(codes) == codes

\* codesByType[type].slice().sort(), on distinct codes
sortCodes(codes) ==
    [i \in 1 .. Len(codes) |->
        CHOOSE x \in Range(codes) :
            Cardinality({y \in Range(codes) :
                unitsLess(charCodes[y], charCodes[x])}) = i - 1]

\* codes.forEach (lines 154-158), as the writes <<code, label>>
setLabels(codes, labels) ==
    [idx \in 1 .. Len(codes) |-> <<codes[idx], labels[idx]>>]

\* the Object.keys(codesByType).forEach loop; st holds the type number k,
\* the generator and the writes made so far
RECURSIVE buildLabelMapFrom(_, _)
buildLabelMapFrom(deck, st) ==
    IF st.k > Len(TypeKeys) THEN st.writes
    ELSE LET codes == sortCodes(codesOfType(deck, TypeKeys[st.k]))
             sh    == shuffleInPlace(codes, st.rng)
         IN  buildLabelMapFrom(deck,
                 [k      |-> st.k + 1,
                  rng    |-> sh.rng,
                  writes |-> st.writes \o setLabels(codes, sh.items)])

\* byId.set(code, label) and byLabel.set(label, code) for every write
buildLabelMap(seed, deck) ==
    LET writes == buildLabelMapFrom(deck,
                      [k |-> 1, writes |-> <<>>,
                       rng |-> mulberry32(hashString(seed))])
    IN  [seed    |-> seed,
         byId    |-> MapOfWrites(writes),
         byLabel |-> MapOfWrites([i \in DOMAIN writes |->
                                     <<writes[i][2], writes[i][1]>>])]

(***************************************************************************)
(* The picker's handlers (picker.js lines 432-571, 771-802, 880-920,       *)
(* 936-957) as functions of the state they read.                           *)
(***************************************************************************)
\* Set.prototype.has / delete on state.selectedIds
isSelected(sel, id) == \E i \in DOMAIN sel : sel[i] = id

withoutId(sel, id) == SelectSeq(sel, LAMBDA x : x # id)

\* state.placements.includes(id)
isPlaced(p, id) == \E idx \in Slots : p[idx] = id

removeCardFromBoardKeeps(p, id) == p

\* lines 459-462: the first slot holding id is emptied
removeCardFromBoard(p, id) ==
    IF isPlaced(p, id)
    THEN [p EXCEPT ![CHOOSE idx \in Slots :
                        p[idx] = id /\ \A k \in 0 .. idx - 1 : p[k] # id] = null]
    ELSE p

\* lines 435-437: the quota of the card's type is not exhausted
canSelect(sel, t, v, id) ==
    getSelectedCounts(sel)[cardsById[id].type]
        < getRequiredCounts(t, v)[cardsById[id].type]

\* lines 514-517: the corner slots that hold a W card
existingCorners(p) ==
    SelectSeq(SlotSeq, LAMBDA i : slotType(p, i) = "W" /\ isCorner(i))

canPlaceCardAtNoCRule(p, sel, t, v, cardId, idx) ==
    LET ty    == cardsById[cardId].type
        wMode == getWMode(t, v)
        allowed == IF wMode.mode = "center" THEN {centerIndex}
                   ELSE {centerIndex} \cup Range(corners)
        target == existingCorners(p)[1]
        pairOk == \/ (target = 0 /\ idx = 24)
                  \/ (target = 24 /\ idx = 0)
                  \/ (target = 4 /\ idx = 20)
                  \/ (target = 20 /\ idx = 4)
    IN  /\ cardId \in CardIds
        /\ isSelected(sel, cardId)
        /\ ty = "W" => /\ idx \in allowed
                       /\ (wMode.mode = "center+diagonal" /\ isCorner(idx)
                             /\ Len(existingCorners(p)) = 1) => pairOk
        /\ ~(ty = "D" /\ isCorner(idx))

canPlaceCardAtNoDRule(p, sel, t, v, cardId, idx) ==
    LET ty    == cardsById[cardId].type
        wMode == getWMode(t, v)
        allowed == IF wMode.mode = "center" THEN {centerIndex}
                   ELSE {centerIndex} \cup Range(corners)
        target == existingCorners(p)[1]
        pairOk == \/ (target = 0 /\ idx = 24)
                  \/ (target = 24 /\ idx = 0)
                  \/ (target = 4 /\ idx = 20)
                  \/ (target = 20 /\ idx = 4)
    IN  /\ cardId \in CardIds
        /\ isSelected(sel, cardId)
        /\ ty = "W" => /\ idx \in allowed
                       /\ (wMode.mode = "center+diagonal" /\ isCorner(idx)
                             /\ Len(existingCorners(p)) = 1) => pairOk
        /\ ty = "C" => ~hasAdjacentC(p, idx)

\* lines 505-540: the ok field of canPlaceCardAt's result
canPlaceCardAt(p, sel, t, v, cardId, idx) ==
    LET ty    == cardsById[cardId].type
        wMode == getWMode(t, v)
        allowed == IF wMode.mode = "center" THEN {centerIndex}
                   ELSE {centerIndex} \cup Range(corners)
        target == existingCorners(p)[1]
        pairOk == \/ (target = 0 /\ idx = 24)
                  \/ (target = 24 /\ idx = 0)
                  \/ (target = 4 /\ idx = 20)
                  \/ (target = 20 /\ idx = 4)
    IN  /\ cardId \in CardIds
        /\ isSelected(sel, cardId)
        /\ ty = "W" => /\ idx \in allowed
                       /\ (wMode.mode = "center+diagonal" /\ isCorner(idx)
                             /\ Len(existingCorners(p)) = 1) => pairOk
        /\ ~(ty = "D" /\ isCorner(idx))
        /\ ty = "C" => ~hasAdjacentC(p, idx)

\* lines 549-551: the card leaves its old slot and takes slot idx
placedAt(p, cardId, idx) ==
    [removeCardFromBoard(p, cardId) EXCEPT ![idx] = cardId]

\* lines 777-782: per type in key order, the catalog's cards of the type are
\* shuffled and the first required[type] of them are selected
RECURSIVE autoSelectFrom(_, _)
autoSelectFrom(required, st) ==
    IF st.k > Len(TypeKeys) THEN [selected |-> st.sel, rng |-> st.rng]
    ELSE LET sh   == shuffle(cardsOfType(CatalogIds, TypeKeys[st.k]), st.rng)
             take == IF required[TypeKeys[st.k]] < Len(sh.array)
                     THEN required[TypeKeys[st.k]] ELSE Len(sh.array)
         IN  autoSelectFrom(required,
                 [k   |-> st.k + 1,
                  sel |-> st.sel \o SubSeq(sh.array, 1, take),
                  rng |-> sh.rng])

autoSelect(t, v, r) ==
    autoSelectFrom(getRequiredCounts(t, v), [k |-> 1, sel |-> <<>>, rng |-> r])

\* lines 886-891: both lists of errors are empty
submitAllowedNoBoardCheck(p, sel, t, v) ==
    Len(validateSelection(sel, t, v)) = 0

submitAllowed(p, sel, t, v) ==
    /\ Len(validateSelection(sel, t, v)) = 0
    /\ Len(validateBoard(p, t, v)) = 0

(***************************************************************************)
(* Specification Spec: the picker page.  A session fixes which cards of    *)
(* the card grid and of the selected list, which board slots and which     *)
(* random seeds the user's clicks range over.                              *)
(***************************************************************************)
Buttons == {"autoSelect", "autoPlace", "autoAll", "clear"}

Sessions == {
    \* the four buttons only
    [grid |-> {}, list |-> {}, slots |-> {}, seeds |-> {0, 1},
     buttons |-> Buttons],
    \* one automatic board, then cards taken off three slots and put back
    [grid |-> {}, list |-> CardIds, slots |-> {0, 7, 12}, seeds |-> {0},
     buttons |-> {"autoAll"}],
    \* selection and placement by hand
    [grid |-> {"W01", "W02", "C01"}, list |-> {"W01", "W02", "C01"},
     slots |-> {0, 11, 12}, seeds |-> {}, buttons |-> {}],
    \* two C cards and a D card on a corner and two slots next to it
    [grid |-> {"C01", "C02", "D01"}, list |-> {"C01", "C02", "D01"},
     slots |-> {0, 1, 6}, seeds |-> {}, buttons |-> {}],
    \* the three W cards on three corners, two of them on one diagonal
    [grid |-> {"W01", "W02", "W03"}, list |-> {"W01", "W02", "W03"},
     slots |-> {0, 4, 24}, seeds |-> {}, buttons |-> {}] }

NoSession == [grid |-> {}, list |-> {}, slots |-> {}, seeds |-> {},
              buttons |-> {}]

\* the code units String.prototype.trim removes and \s matches: the white
\* space and line terminator units of ECMAScript
isWhiteSpace(u) ==
    \/ u \in 9 .. 13
    \/ u \in {32, 160, 5760, 8232, 8233, 8239, 8287, 12288, 65279}
    \/ u \in 8192 .. 8202

RECURSIVE trimStart(_)
trimStart(str) ==
    IF str # <<>> /\ isWhiteSpace(str[1]) THEN trimStart(Tail(str)) ELSE str

RECURSIVE trimEnd(_)
trimEnd(str) ==
    IF str # <<>> /\ isWhiteSpace(str[Len(str)])
    THEN trimEnd(SubSeq(str, 1, Len(str) - 1)) ELSE str

trim(str) == trimEnd(trimStart(str))

\* what the playerName field holds at a submit: nothing, "runner", " me"
\* followed by a no-break space, two spaces
Names ==
    { <<>>, <<114, 117, 110, 110, 101, 114>>, <<32, 109, 101, 160>>,
      <<32, 32>> }

\* FORM_CELL_MAP (lines 5-32): the 25 cells, row by row
FORM_CELL_MAP ==
    [i \in 1 .. 25 |-> [row |-> (i - 1) \div 5, col |-> (i - 1) % 5]]

\* lines 401-403: count times the star, U+2605
formatStars(count) == [i \in 1 .. count |-> 9733]

\* lines 405-407: `${card.label} ${formatStars(card.stars)}`
formatCard(card) == charCodes[card.label] \o <<32>> \o formatStars(card.stars)

\* state.cardsById[cardId] (line 934): <<c>> for the card, <<>> for undefined
cardById(cs, cardId) ==
    SelectSeq(cs, LAMBDA c : c.id = cardId)

\* lines 895-900: the text appended for each cell of FORM_CELL_MAP
formCells(cs, p) ==
    [i \in DOMAIN FORM_CELL_MAP |->
        LET idx  == getPlacementIndex(FORM_CELL_MAP[i].row, FORM_CELL_MAP[i].col)
            card == cardById(cs, p[idx])
        IN  IF card # <<>> THEN formatCard(card[1]) ELSE <<>>]

\* state.cards after init (line 933)
seasonCards == buildCards(SEASON_SEED)

\* no generateBoard call is in progress
NoGen == [pc |-> "idle", attempt |-> 0, board |-> EmptyBoard, cCards |-> <<>>,
          placed |-> FALSE, result |-> <<>>]

\* the players the progress file may list
Players == {"p1", "p2"}

\* progressLookup without entries: no player has data of any run
EmptyLookup == [n \in Players |-> 0]

\* allBoards as declared (boards page, line 50): the boards of no run
NoBoards == [run |-> 0, cells |-> <<>>]

\* no loadBoards run, none waiting for the deck, allBoards and
\* progressLookup as declared (boards page, lines 50-51)
NoLoads == [runs |-> <<>>, deckWaiters |-> <<>>, allBoards |-> NoBoards,
            progressLookup |-> EmptyLookup]

\* the deck object parsed from the text of fetch number n; fetch 0 stands
\* for null
DeckOf(n) == [fetch |-> n]

NullDeck == DeckOf(0)

\* a promise that is not settled, and one settled with v
Pending == [state |-> "pending", value |-> NullDeck]

Settled(v) == [state |-> "settled", value |-> v]

\* the null of cardDeckPromise
NoPromise == [state |-> "none", value |-> NullDeck]

\* cardDeckCache and cardDeckPromise as declared (lines 11-12), no fetch, no
\* caller
NoDeckLoad == [cardDeckCache |-> NullDeck, cardDeckPromise |-> NoPromise,
               fetches |-> 0, calls |-> <<>>]

\* tierIndexPromise (submit.js, line 114): state is "none" for null,
\* "pending", "fulfilled" or "rejected"; index is the set of the names the
\* Map it is fulfilled with has a tier for
TierIndexPromise(state, index) == [state |-> state, index |-> index]

\* no handleSubmit run, the submit button enabled, tierIndexPromise null
\* (submit.js)
NoSubmits == [runs |-> <<>>, disabled |-> FALSE,
              tierIndexPromise |-> TierIndexPromise("none", {}), edits |-> 0]

\* the asynchronous parts of the two pages at rest
NoAsync == loads = NoLoads /\ deckLoad = NoDeckLoad /\ submits = NoSubmits

\* the submit page as loaded, with no connection saved
NoForm == [claims |-> <<>>, tokenEvent |-> <<>>, apiBase |-> <<>>,
           files |-> FALSE, groupNames |-> <<>>]

\* the dashboard script has run no applyLabelMapIfNeeded (lines 10-12)
NoDashboard ==
    labelMapCache = <<>> /\ cardDeckPromise = "none" /\ applied = <<>>

\* the dashboard has loaded no deck and built no label map
NoLabelMap == cardDeck = <<>> /\ labelMap = <<>> /\ prevLabelMap = <<>>

Init ==
    /\ tier = "beginner"
    /\ variantW = TRUE
    /\ selectedIds = <<>>
    /\ placements = EmptyBoard
    /\ activeCardId = null
    /\ sent = <<>>
    /\ session \in Sessions
    /\ candidate = EmptyBoard
    /\ candErrors = <<>>
    /\ edits = 0
    /\ genResult = <<>>
    /\ cards = seasonCards
    /\ labelSeed = SEASON_SEED
    /\ NoLabelMap
    /\ gen = NoGen
    /\ NoDashboard
    /\ form = NoForm
    /\ NoAsync

Frame ==
    UNCHANGED <<session, candidate, candErrors, edits, genResult,
                cards, labelSeed, cardDeck, labelMap, prevLabelMap, gen,
                labelMapCache, cardDeckPromise, applied, form,
                loads, deckLoad, submits>>

\* card grid click (lines 592-595) on a card that is not selected: selectCard
SelectCard(id) ==
    /\ ~isSelected(selectedIds, id)
    /\ canSelect(selectedIds, tier, variantW, id)
    /\ selectedIds' = Append(selectedIds, id)
    /\ sent' = <<>>
    /\ UNCHANGED <<tier, variantW, placements, activeCardId>>
    /\ Frame

DeselectCardKeepsActive(id) ==
    /\ isSelected(selectedIds, id)
    /\ selectedIds' = withoutId(selectedIds, id)
    /\ placements' = removeCardFromBoard(placements, id)
    /\ sent' = <<>>
    /\ UNCHANGED <<tier, variantW, activeCardId>>
    /\ Frame

\* card grid click on a selected card: deselectCard (lines 445-451)
DeselectCard(id) ==
    /\ isSelected(selectedIds, id)
    /\ selectedIds' = withoutId(selectedIds, id)
    /\ placements' = removeCardFromBoard(placements, id)
    /\ activeCardId' = IF activeCardId = id THEN null ELSE activeCardId
    /\ sent' = <<>>
    /\ UNCHANGED <<tier, variantW>>
    /\ Frame

\* click on a card of the selected list, which shows the selected cards
\* that are not on the board (lines 472-481, 600-619)
HandleSelectedCardClick(id) ==
    /\ isSelected(selectedIds, id)
    /\ ~isPlaced(placements, id)
    /\ activeCardId' = IF activeCardId = id THEN null ELSE id
    /\ sent' = <<>>
    /\ UNCHANGED <<tier, variantW, selectedIds, placements>>
    /\ Frame

\* board click with an active card: placeCardAt (lines 542-556, 565-569)
PlaceCardAt(idx) ==
    /\ activeCardId # null
    /\ IF canPlaceCardAt(placements, selectedIds, tier, variantW, activeCardId, idx)
       THEN /\ placements' = placedAt(placements, activeCardId, idx)
            /\ activeCardId' = null
       ELSE UNCHANGED <<placements, activeCardId>>
    /\ sent' = <<>>
    /\ UNCHANGED <<tier, variantW, selectedIds>>
    /\ Frame

\* board click without an active card: removeCardAt (lines 558-563, 570)
RemoveCardAt(idx) ==
    /\ activeCardId = null
    /\ placements[idx] # null
    /\ placements' = [placements EXCEPT ![idx] = null]
    /\ sent' = <<>>
    /\ UNCHANGED <<tier, variantW, selectedIds, activeCardId>>
    /\ Frame

\* lines 936-939
TierChange(t) ==
    /\ t # tier
    /\ tier' = t
    /\ sent' = <<>>
    /\ UNCHANGED <<variantW, selectedIds, placements, activeCardId>>
    /\ Frame

\* lines 941-944
VariantToggle ==
    /\ variantW' = ~variantW
    /\ sent' = <<>>
    /\ UNCHANGED <<tier, selectedIds, placements, activeCardId>>
    /\ Frame

\* lines 771-785
AutoSelect(seed) ==
    /\ "autoSelect" \in session.buttons
    /\ selectedIds' = autoSelect(tier, variantW, RandStart(seed)).selected
    /\ placements' = EmptyBoard
    /\ activeCardId' = null
    /\ sent' = <<>>
    /\ UNCHANGED <<tier, variantW>>
    /\ Frame

AutoPlaceClearsOnFailure(seed) ==
    LET result == generateBoard(selectedIds, tier, variantW, RandStart(seed))
    IN  /\ "autoPlace" \in session.buttons
        /\ placements' =
              IF Len(validateSelection(selectedIds, tier, variantW)) = 0
                 /\ result.ok
              THEN result.board ELSE EmptyBoard
        /\ activeCardId' = null
        /\ sent' = <<>>
        /\ UNCHANGED <<tier, variantW, selectedIds>>
        /\ Frame

\* lines 787-802
AutoPlace(seed) ==
    LET result == generateBoard(selectedIds, tier, variantW, RandStart(seed))
    IN  /\ "autoPlace" \in session.buttons
        /\ IF Len(validateSelection(selectedIds, tier, variantW)) = 0 /\ result.ok
           THEN /\ placements' = result.board
                /\ activeCardId' = null
           ELSE UNCHANGED <<placements, activeCardId>>
        /\ sent' = <<>>
        /\ UNCHANGED <<tier, variantW, selectedIds>>
        /\ Frame

\* lines 947-950: autoSelect, then autoPlace on the same random source
AutoAll(seed) ==
    LET chosen == autoSelect(tier, variantW, RandStart(seed))
        result == generateBoard(chosen.selected, tier, variantW, chosen.rng)
    IN  /\ "autoAll" \in session.buttons
        /\ selectedIds' = chosen.selected
        /\ placements' =
              IF Len(validateSelection(chosen.selected, tier, variantW)) = 0
                 /\ result.ok
              THEN result.board ELSE EmptyBoard
        /\ activeCardId' = null
        /\ sent' = <<>>
        /\ UNCHANGED <<tier, variantW>>
        /\ Frame

\* lines 952-956
ClearBoard ==
    /\ "clear" \in session.buttons
    /\ placements' = EmptyBoard
    /\ activeCardId' = null
    /\ sent' = <<>>
    /\ UNCHANGED <<tier, variantW, selectedIds>>
    /\ Frame

\* lines 880-920: the POST is issued for a name that is not empty once
\* trimmed when both validations pass; its body carries the trimmed name
\* and the label and stars of the card of each cell (the three fields of
\* lines 901-903, two fixed strings and the time of the click, are left out)
HandleSubmit(name) ==
    /\ sent' = IF trim(name) # <<>>
                  /\ submitAllowed(placements, selectedIds, tier, variantW)
               THEN << [name |-> trim(name),
                        cells |-> formCells(cards, placements)] >>
               ELSE <<>>
    /\ UNCHANGED <<tier, variantW, selectedIds, placements, activeCardId>>
    /\ Frame

Next ==
    \/ \E id \in session.grid : SelectCard(id)
    \/ \E id \in session.grid : DeselectCard(id)
    \/ \E id \in session.list : HandleSelectedCardClick(id)
    \/ \E idx \in session.slots : PlaceCardAt(idx)
    \/ \E idx \in session.slots : RemoveCardAt(idx)
    \/ \E t \in Tiers : TierChange(t)
    \/ VariantToggle
    \/ \E seed \in session.seeds : AutoSelect(seed)
    \/ \E seed \in session.seeds : AutoPlace(seed)
    \/ \E seed \in session.seeds : AutoAll(seed)
    \/ ClearBoard
    \/ \E name \in Names : HandleSubmit(name)

Spec == Init /\ [][Next]_vars

(***************************************************************************)
(* Specification SpecVal: validateBoardAgainst as a function of its        *)
(* argument.  The candidate starts as a complete, rule-abiding board and   *)
(* is rewritten slot by slot with arbitrary cards (no placement rule is    *)
(* applied to the writes); every candidate is validated under the tier and *)
(* variant drawn at the start.                                             *)
(***************************************************************************)
MaxEdits == 2

\* a complete board that satisfies every rule in mode "center"
BaseBoard == [idx \in Slots |->
    << "A01", "C01", "A02", "C02", "A03",
       "B01", "A04", "D01", "A05", "B02",
       "C03", "B03", "W01", "C04", "B04",
       "A06", "D02", "A07", "B05", "A08",
       "A09", "B06", "C05", "B07", "A10" >>[idx + 1]]

\* the slots rewritten: the corners, the centre, and the slots around the
\* row boundary 9|10 (5 is above 10, 9 is diagonal to 3 and 13)
EditSlots == {0, 4, 20, 24, 12, 5, 9, 10}

\* what is written: nothing, or a W, C or D card that BaseBoard lacks
EditCards == {null, "W02", "W03", "C09", "D05"}

\* one (tier, variant) pair per wild mode, and a pair with the variant off
ValModes == { <<"beginner", TRUE>>, <<"intermediate", TRUE>>,
              <<"advanced", TRUE>>, <<"advanced", FALSE>> }

InitVal ==
    /\ \E m \in ValModes : tier = m[1] /\ variantW = m[2]
    /\ selectedIds = [i \in 1 .. 25 |-> BaseBoard[i - 1]]
    /\ placements = BaseBoard
    /\ activeCardId = null
    /\ sent = <<>>
    /\ session = NoSession
    /\ candidate = BaseBoard
    /\ candErrors = validateBoardAgainst(BaseBoard, tier, variantW)
    /\ edits = 0
    /\ genResult = <<>>
    /\ cards = <<>>
    /\ labelSeed = SEASON_SEED
    /\ NoLabelMap
    /\ gen = NoGen
    /\ NoDashboard
    /\ form = NoForm
    /\ NoAsync

ValidateCandidate(idx, id) ==
    /\ edits < MaxEdits
    /\ candidate[idx] # id
    /\ candidate' = [candidate EXCEPT ![idx] = id]
    /\ candErrors' = validateBoardAgainst(candidate', tier, variantW)
    /\ edits' = edits + 1
    /\ placements' = placementsAfterValidate(placements, candidate')
    /\ UNCHANGED <<tier, variantW, selectedIds, activeCardId, sent,
                   genResult, session,
                   cards, labelSeed, cardDeck, labelMap, prevLabelMap, gen,
                labelMapCache, cardDeckPromise, applied, form,
                loads, deckLoad, submits>>

NextVal == \E idx \in EditSlots, id \in EditCards : ValidateCandidate(idx, id)

SpecVal == InitVal /\ [][NextVal]_vars

(***************************************************************************)
(* Vocabulary of the validation claims, stated on the board itself.        *)
(***************************************************************************)
WSlots(p) == {idx \in Slots : p[idx] # null /\ cardsById[p[idx]].type = "W"}

MandatedWSets(mode) ==
    CASE mode = "center"          -> {{12}}
      [] mode = "center+corner"   -> {{12, 0}, {12, 4}, {12, 20}, {12, 24}}
      [] mode = "center+diagonal" -> {{12, 0, 24}, {12, 4, 20}}

WildMsgs == {MsgWCount, MsgCenterNotW, MsgWPosition, MsgWOneCorner,
             MsgWTwoCorners, MsgWDiagonal}

WildCountPositionMsgs == WildMsgs \ {MsgCenterNotW}

Abs(n) == IF n < 0 THEN -n ELSE n

SharesEdge(i, j) ==
    Abs((i \div 5) - (j \div 5)) + Abs((i % 5) - (j % 5)) = 1

HoldsType(p, idx, ty) == p[idx] # null /\ cardsById[p[idx]].type = ty

CShareEdge(p) ==
    \E i, j \in Slots :
        HoldsType(p, i, "C") /\ HoldsType(p, j, "C") /\ SharesEdge(i, j)

DOnCorner(p) == \E idx \in {0, 4, 20, 24} : HoldsType(p, idx, "D")

(***************************************************************************)
(* Specification SpecGen: generateBoard as a function of the tier, the     *)
(* variant, the selection and the random source.  The selections are the   *)
(* quota-exact ones of the three count tables (each also tried under the   *)
(* tiers it does not fit), a selection with all nine C cards, a short one  *)
(* and one in reverse order.                                               *)
(***************************************************************************)
GenSelections ==
    { SelectionFor(BASE_COUNTS),
      SelectionFor(VARIANT_COUNTS.intermediate),
      SelectionFor(VARIANT_COUNTS.advanced),
      Reverse(SelectionFor(VARIANT_COUNTS.advanced)),
      SelectionFor([A |-> 8, B |-> 5, C |-> 9, D |-> 2, W |-> 1]),
      <<"W01", "C01", "D01">> }

InitGen ==
    /\ tier \in Tiers
    /\ variantW \in BOOLEAN
    /\ selectedIds \in GenSelections
    /\ placements = EmptyBoard
    /\ activeCardId = null
    /\ sent = <<>>
    /\ session = NoSession
    /\ candidate = EmptyBoard
    /\ candErrors = <<>>
    /\ edits = 0
    /\ genResult = <<>>
    /\ cards = <<>>
    /\ labelSeed = SEASON_SEED
    /\ NoLabelMap
    /\ gen = NoGen
    /\ NoDashboard
    /\ form = NoForm
    /\ NoAsync

RunGenerateBoard(seed) ==
    /\ genResult = <<>>
    /\ genResult' = <<generateBoard(selectedIds, tier, variantW, RandStart(seed))>>
    /\ UNCHANGED <<tier, variantW, selectedIds, placements, activeCardId, sent,
                   candidate, candErrors, edits, session,
                   cards, labelSeed, cardDeck, labelMap, prevLabelMap, gen,
                labelMapCache, cardDeckPromise, applied, form,
                loads, deckLoad, submits>>

NextGen == \E seed \in RandSeeds : RunGenerateBoard(seed)

SpecGen == InitGen /\ [][NextGen]_vars

\* C1: whenever generateBoard returns a board, all 25 slots of it are filled
\* and validateBoard under the same tier and variant returns no error,
\* whatever the selection and the random draws.
C1_GeneratedBoardValid ==
    \A i \in DOMAIN genResult :
        genResult[i].ok =>
            /\ \A idx \in Slots : genResult[i].board[idx] # null
            /\ validateBoard(genResult[i].board, tier, variantW) = <<>>

C1_Witness ==
    /\ genResult # <<>>
    /\ genResult[1].ok
    /\ tier = "advanced" /\ variantW
    /\ WSlots(genResult[1].board) = {12, 4, 20}

\* C2: whatever the user did before, a POST issued by handleSubmit carries
\* the board of a state with 25 filled slots, per-type selected counts equal
\* to the required counts of the tier and variant, the W cards on the
\* mandated slots, no D card on a corner and no two C cards sharing an edge.
C2_SubmittedBoardValid ==
    \A i \in DOMAIN sent :
        /\ \A idx \in Slots :
              /\ placements[idx] \in CardIds
              /\ sent[i].cells[idx + 1]
                     = formatCard(cardById(cards, placements[idx])[1])
        /\ \A idx \in Slots : placements[idx] # null
        /\ \A ty \in Range(TypeKeys) :
              getSelectedCounts(selectedIds)[ty]
                  = getRequiredCounts(tier, variantW)[ty]
        /\ WSlots(placements) \in MandatedWSets(getWMode(tier, variantW).mode)
        /\ ~DOnCorner(placements)
        /\ ~CShareEdge(placements)

C2_Witness ==
    /\ sent # <<>>
    /\ tier = "advanced" /\ variantW
    /\ Len(selectedIds) = 25

\* C7: validateBoard reports no Wild-related message exactly when the W
\* cards hold the slot set the wild mode mandates ({12}; {12, one corner};
\* {12,0,24} or {12,4,20}); with Wilds on 12, 0 and 4 in mode
\* center+diagonal the diagonal message is reported.
C7_WildSetExact ==
    LET mode == getWMode(tier, variantW).mode
    IN  /\ (Range(candErrors) \cap WildMsgs = {})
              <=> (WSlots(candidate) \in MandatedWSets(mode))
        /\ (mode = "center+diagonal" /\ WSlots(candidate) = {12, 0, 4})
              => MsgWDiagonal \in Range(candErrors)

C7_Witness ==
    /\ tier = "advanced" /\ variantW
    /\ WSlots(candidate) = {12, 0, 4}
    /\ MsgWDiagonal \in Range(candErrors)
    /\ edits = 2

\* C8: validateBoard reports the C-adjacency message exactly when two C
\* cards hold slots that share a grid edge; diagonal neighbours and the
\* slots 5k+4, 5k+5 across a row boundary do not count.
C8_CAdjacencyExact ==
    (MsgCAdjacent \in Range(candErrors)) <=> CShareEdge(candidate)

C8_Witness ==
    /\ HoldsType(candidate, 5, "C") /\ HoldsType(candidate, 10, "C")
    /\ MsgCAdjacent \in Range(candErrors)
    /\ edits = 1

\* C9: validateBoard reports the forbidden-corner message exactly when a D
\* card holds slot 0, 4, 20 or 24; a D card elsewhere (slot 7) adds none.
C9_DCornerExact ==
    (MsgDCorner \in Range(candErrors)) <=> DOnCorner(candidate)

C9_Witness ==
    /\ HoldsType(candidate, 24, "D") /\ HoldsType(candidate, 7, "D")
    /\ Len(SelectSeq(candErrors, LAMBDA m : m = MsgDCorner)) = 1

\* C10: every check of validateBoard runs whatever the earlier ones found:
\* each violated check (completeness, Wild count/position, centre
\* occupancy, D corner, C adjacency) has its message in the returned list.
C10_AllChecksReported ==
    LET E    == Range(candErrors)
        mode == getWMode(tier, variantW).mode
    IN  /\ (\E idx \in Slots : candidate[idx] = null) => MsgIncomplete \in E
        /\ (WSlots(candidate) \notin MandatedWSets(mode))
              => E \cap WildCountPositionMsgs # {}
        /\ (12 \notin WSlots(candidate)) => MsgCenterNotW \in E
        /\ DOnCorner(candidate) => MsgDCorner \in E
        /\ CShareEdge(candidate) => MsgCAdjacent \in E

C10_Witness ==
    /\ candidate[12] = null
    /\ HoldsType(candidate, 0, "D")
    /\ {MsgIncomplete, MsgWCount, MsgCenterNotW, MsgDCorner} \subseteq Range(candErrors)

(***************************************************************************)
(* The label shuffle: the dashboard's buildLabelMap on a deck file that a  *)
(* page load may find listed in another order, and the picker's cards as   *)
(* init builds them with SEASON_SEED.  The formulas apply the function     *)
(* buildCards to the other seeds.                                          *)
(***************************************************************************)
MaxSeedLen == 1

SeedUnits == {48, 87}

LabelSeeds ==
    {SEASON_SEED} \cup UNION {[1 .. n -> SeedUnits] : n \in 0 .. MaxSeedLen}

Rotate(seq) == SubSeq(seq, 2, Len(seq)) \o <<seq[1]>>

DeckListings ==
    { CatalogIds,
      <<"A01", "A02", "A03">>,
      <<"W02", "A05", "C01", "A02", "W01", "C03", "B01", "A07", "A14", "A10">> }

Decks == UNION {{d, Reverse(d), Rotate(d)} : d \in DeckListings}

InitLabel ==
    /\ tier = "beginner"
    /\ variantW = TRUE
    /\ selectedIds = <<>>
    /\ placements = EmptyBoard
    /\ activeCardId = null
    /\ sent = <<>>
    /\ session = NoSession
    /\ candidate = EmptyBoard
    /\ candErrors = <<>>
    /\ edits = 0
    /\ genResult = <<>>
    /\ cards = <<>>
    /\ labelSeed \in LabelSeeds
    /\ cardDeck \in Decks
    /\ labelMap = <<>>
    /\ prevLabelMap = <<>>
    /\ gen = NoGen
    /\ NoDashboard
    /\ form = NoForm
    /\ NoAsync

LabelFrame ==
    UNCHANGED <<tier, variantW, selectedIds, placements, activeCardId, sent,
                candidate, candErrors, edits, genResult, session, gen,
                labelMapCache, cardDeckPromise, applied, form,
                loads, deckLoad, submits>>

\* a buildLabelMap(seed, cardDeck) call
BuildLabelMap ==
    /\ labelMap' = <<[seed     |-> labelSeed,
                      cardDeck |-> cardDeck,
                      result   |-> buildLabelMap(labelSeed, cardDeck)]>>
    /\ prevLabelMap' = labelMap
    /\ UNCHANGED <<cards, labelSeed, cardDeck>>
    /\ LabelFrame

\* a later page load parses a deck file that lists the same cards in
\* another order (parseCardDeck, lines 104-117)
ReloadDeck(deck) ==
    /\ deck # cardDeck
    /\ Range(deck) = Range(cardDeck)
    /\ cardDeck' = deck
    /\ UNCHANGED <<cards, labelSeed, labelMap, prevLabelMap>>
    /\ LabelFrame

\* the picker's init (line 933): state.cards = buildCards(SEASON_SEED)
BuildCards ==
    /\ cards = <<>>
    /\ cards' = buildCards(SEASON_SEED)
    /\ UNCHANGED <<labelSeed, cardDeck, labelMap, prevLabelMap>>
    /\ LabelFrame

NextLabel ==
    \/ BuildLabelMap
    \/ \E deck \in Decks : ReloadDeck(deck)
    \/ BuildCards

SpecLabel == InitLabel /\ [][NextLabel]_vars

codeTypeOf(code) == cardsById[code].type

\* C3: for every seed and catalog the built map is a bijection on the
\* catalog: every identity has a label, byLabel maps that label back to the
\* identity, byId maps every label of byLabel back to it, and no two
\* identities share a label.
C3_LabelMapBijection ==
    \A c \in DOMAIN labelMap :
        LET byId    == labelMap[c].result.byId
            byLabel == labelMap[c].result.byLabel
            catalog == Range(labelMap[c].cardDeck)
        IN  /\ DOMAIN byId = catalog
            /\ \A x \in catalog :
                   byId[x] \in DOMAIN byLabel /\ byLabel[byId[x]] = x
            /\ \A l \in DOMAIN byLabel :
                   byLabel[l] \in DOMAIN byId /\ byId[byLabel[l]] = l
            /\ \A x, y \in catalog : byId[x] = byId[y] => x = y

C3_Witness ==
    /\ labelMap # <<>>
    /\ labelSeed = SEASON_SEED
    /\ Range(labelMap[1].cardDeck) = CardIds
    /\ Cardinality({x \in CardIds : labelMap[1].result.byId[x] # x}) >= 20

\* C4: the label of an identity of type T is an identity of type T of the
\* same catalog, in the dashboard's label map and on the picker's cards.
C4_LabelsStayInType ==
    /\ \A c \in DOMAIN labelMap :
           /\ \A x \in DOMAIN labelMap[c].result.byId :
                  /\ labelMap[c].result.byId[x] \in Range(labelMap[c].cardDeck)
                  /\ codeTypeOf(labelMap[c].result.byId[x]) = codeTypeOf(x)
           /\ \A card \in Range(buildCards(labelMap[c].seed)) :
                  /\ card.label \in CardIds
                  /\ codeTypeOf(card.label) = card.type
    /\ \A i \in DOMAIN cards :
           /\ cards[i].label \in CardIds
           /\ codeTypeOf(cards[i].label) = cards[i].type

C4_Witness ==
    /\ labelMap # <<>>
    /\ labelSeed = SEASON_SEED
    /\ Range(labelMap[1].cardDeck) = {"A01", "A02", "A03"}
    /\ \E x \in {"A01", "A02", "A03"} : labelMap[1].result.byId[x] # x
    /\ cards # <<>>
    /\ \E i \in DOMAIN cards : cards[i].label # cards[i].id

\* C5: two buildLabelMap calls with the same seed and the same set of
\* catalog identities return the same byId and byLabel maps, whatever was
\* called before and in whatever order the catalog listed its entries.
C5_SameSeedSameMap ==
    \A c \in DOMAIN labelMap, d \in DOMAIN prevLabelMap :
        (/\ labelMap[c].result.seed = prevLabelMap[d].result.seed
         /\ Range(labelMap[c].cardDeck) = Range(prevLabelMap[d].cardDeck))
        => /\ labelMap[c].result.byId = prevLabelMap[d].result.byId
           /\ labelMap[c].result.byLabel = prevLabelMap[d].result.byLabel

C5_Witness ==
    /\ labelMap # <<>>
    /\ prevLabelMap # <<>>
    /\ Range(labelMap[1].cardDeck) = CardIds
    /\ labelMap[1].cardDeck # prevLabelMap[1].cardDeck
    /\ labelMap[1].result.seed = prevLabelMap[1].result.seed
    /\ labelMap[1].result.byId = prevLabelMap[1].result.byId
    /\ \E x \in CardIds : labelMap[1].result.byId[x] # x

\* C6: for the same seed and the same catalog, the label buildCards gives
\* to each card id is the label buildLabelMap(seed, deck).byId gives it:
\* for buildCards applied to the seed of the buildLabelMap call, and for
\* the cards the picker's init has built when the call's seed is its seed.
C6_PickerAgreesWithDashboard ==
    \A c \in DOMAIN labelMap :
        Range(labelMap[c].cardDeck) = CardIds
        => /\ \A card \in Range(buildCards(labelMap[c].seed)) :
                  labelMap[c].result.byId[card.id] = card.label
           /\ labelMap[c].seed = SEASON_SEED
                  => \A i \in DOMAIN cards :
                         labelMap[c].result.byId[cards[i].id] = cards[i].label

\* the picker has built its cards, and a buildLabelMap call with a seed of
\* one unit on a reordered catalog has returned
C6_Witness ==
    /\ cards # <<>>
    /\ labelMap # <<>>
    /\ Range(labelMap[1].cardDeck) = CardIds
    /\ labelMap[1].cardDeck # CatalogIds
    /\ Len(labelMap[1].seed) = 1
    /\ Cardinality({card \in Range(buildCards(labelMap[1].seed)) :
                       card.label # card.id}) >= 20

(***************************************************************************)
(* The tier tables, on the picker page (specification Spec).               *)
(***************************************************************************)
\* the number of W cards on board p
WCountOn(p) == Cardinality({idx \in Slots : HoldsType(p, idx, "W")})

SumOfCounts(counts) ==
    counts.A + counts.B + counts.C + counts.D + counts.W

\* C11: getWMode gives mode center with count 1 when the tier is beginner or
\* the variant is off, center+corner with count 2 for intermediate with the
\* variant on, and center+diagonal with count 3 for advanced with the
\* variant on.
C11_WModeByTier ==
    /\ (tier = "beginner" \/ ~variantW)
          => getWMode(tier, variantW) = [count |-> 1, mode |-> "center"]
    /\ (tier = "intermediate" /\ variantW)
          => getWMode(tier, variantW) = [count |-> 2, mode |-> "center+corner"]
    /\ (tier = "advanced" /\ variantW)
          => getWMode(tier, variantW) = [count |-> 3, mode |-> "center+diagonal"]

\* an advanced board of the variant, laid out by generateBoard with the three
\* W cards its getWMode call asked for
C11_Witness ==
    /\ tier = "advanced" /\ variantW
    /\ getWMode(tier, variantW).count = 3
    /\ WCountOn(placements) = 3
    /\ \A idx \in Slots : placements[idx] # null

\* C12: for each of the six (tier, variant) pairs the counts returned by
\* getRequiredCounts sum to exactly 25.
C12_CountsSumTo25 ==
    /\ tier \in Tiers /\ variantW \in BOOLEAN
    /\ SumOfCounts(getRequiredCounts(tier, variantW)) = 25

\* an intermediate selection of the variant made by autoSelect: 25 cards, two
\* of them W and one D
C12_Witness ==
    /\ tier = "intermediate" /\ variantW
    /\ getSelectedCounts(selectedIds) = getRequiredCounts(tier, variantW)
    /\ Len(selectedIds) = 25
    /\ getSelectedCounts(selectedIds).W = 2

\* C13: generateBoard returns a board with all 25 slots filled or the failure
\* value, never a board with an empty slot; and an autoPlace whose selection
\* counts are wrong or whose generateBoard call fails leaves state.placements
\* and state.selectedIds as they were.
C13_FailureLeavesBoard ==
    [][\A seed \in session.seeds :
          AutoPlace(seed) =>
              LET result == generateBoard(selectedIds, tier, variantW,
                                          RandStart(seed))
              IN  /\ result.ok => \A idx \in Slots : result.board[idx] # null
                  /\ ~result.ok => result.board = EmptyBoard
                  /\ (~result.ok
                        \/ Len(validateSelection(selectedIds, tier, variantW)) # 0)
                       => /\ placements' = placements
                          /\ selectedIds' = selectedIds]_vars

\* a full board whose selection no longer fits the tier, on a page with the
\* auto-place button: the next autoPlace stops at the selection check
C13_Witness ==
    /\ "autoPlace" \in session.buttons
    /\ session.seeds # {}
    /\ \A idx \in Slots : placements[idx] # null
    /\ Len(validateSelection(selectedIds, tier, variantW)) # 0
    /\ ~generateBoard(selectedIds, tier, variantW, RandStart(0)).ok

(***************************************************************************)
(* Specification SpecTrials: one generateBoard call, statement by          *)
(* statement around the trial loop of lines 837-856.  gen.pc is the        *)
(* position in the call: "idle" before it, "trials" at the loop head,      *)
(* "fill" after the break of line 854, "done" after a return.  The numbers *)
(* Math.random returns are not constrained by the program: the draws of    *)
(* each step are read from the start of any of the first NumTrialSeeds     *)
(* sequences of RandStreams.                                               *)
(***************************************************************************)
NumTrialSeeds == 4

\* the numbers of the sequences the draws of a step may be read from
TrialSeeds == 0 .. NumTrialSeeds - 1

\* one (tier, variant) pair per wild mode
TrialModes == { <<"beginner", TRUE>>, <<"intermediate", TRUE>>,
                <<"advanced", TRUE>> }

\* the quota-exact selection of each count table and two with all nine C
\* cards
TrialSelections ==
    { SelectionFor(BASE_COUNTS),
      SelectionFor(VARIANT_COUNTS.intermediate),
      SelectionFor(VARIANT_COUNTS.advanced),
      SelectionFor([A |-> 8, B |-> 5, C |-> 9, D |-> 2, W |-> 1]),
      SelectionFor([A |-> 6, B |-> 3, C |-> 9, D |-> 5, W |-> 4]) }

InitTrials ==
    /\ \E m \in TrialModes : tier = m[1] /\ variantW = m[2]
    /\ selectedIds \in TrialSelections
    /\ placements = EmptyBoard
    /\ activeCardId = null
    /\ sent = <<>>
    /\ session = NoSession
    /\ candidate = EmptyBoard
    /\ candErrors = <<>>
    /\ edits = 0
    /\ genResult = <<>>
    /\ cards = <<>>
    /\ labelSeed = SEASON_SEED
    /\ NoLabelMap
    /\ gen = NoGen
    /\ NoDashboard
    /\ form = NoForm
    /\ NoAsync

TrialFrame ==
    UNCHANGED <<tier, variantW, selectedIds, placements, activeCardId, sent,
                candidate, candErrors, edits, genResult, session,
                cards, labelSeed, cardDeck, labelMap, prevLabelMap,
                labelMapCache, cardDeckPromise, applied, form,
                loads, deckLoad, submits>>

\* lines 805-836: the W and D stages and the shuffle of the C cards
StartGenerate(seed) ==
    LET w == genPlaceW(selectedIds, tier, variantW, RandStart(seed))
        d == genPlaceD(selectedIds, w.board, w.rng)
        cCards == shuffle(cardsOfType(selectedIds, "C"), d.rng)
    IN  /\ gen.pc = "idle"
        /\ gen' = [pc |-> "trials", attempt |-> 0, board |-> d.board,
                   cCards |-> cCards.array, placed |-> FALSE, result |-> <<>>]
        /\ TrialFrame

trialsLeftUntilPlaced(g) == ~g.placed

\* line 837: the loop condition  attempt < 200
trialsLeft(g) == g.attempt < CAttempts

\* lines 838-855: one pass of the loop body; a trial that placed every C card
\* leaves the loop with boardWithC, any other ends in attempt++
TrialC(seed) ==
    LET trial == genTrialC(gen.cCards,
                           [temp |-> gen.board, k |-> 1, rng |-> RandStart(seed)])
    IN  /\ gen.pc = "trials"
        /\ trialsLeft(gen)
        /\ gen' = IF trial.ok
                  THEN [gen EXCEPT !.pc = "fill", !.board = trial.board,
                                   !.placed = TRUE]
                  ELSE [gen EXCEPT !.attempt = gen.attempt + 1]
        /\ TrialFrame

\* line 857: the loop ended without boardWithC
ExhaustC ==
    /\ gen.pc = "trials"
    /\ ~trialsLeft(gen)
    /\ gen' = [gen EXCEPT !.pc = "done",
                          !.result = <<[ok |-> FALSE, board |-> EmptyBoard]>>]
    /\ TrialFrame

\* lines 859-869: the fill and the final check
FillAndCheck(seed) ==
    LET f == genFill(selectedIds, gen.board, RandStart(seed))
    IN  /\ gen.pc = "fill"
        /\ gen' = [gen EXCEPT
                      !.pc = "done",
                      !.result = IF genAccepts(f.board, tier, variantW)
                                 THEN <<[ok |-> TRUE, board |-> f.board]>>
                                 ELSE <<[ok |-> FALSE, board |-> EmptyBoard]>>]
        /\ TrialFrame

NextTrials ==
    \/ \E seed \in TrialSeeds : StartGenerate(seed)
    \/ \E seed \in TrialSeeds : TrialC(seed)
    \/ ExhaustC
    \/ \E seed \in TrialSeeds : FillAndCheck(seed)

SpecTrials == InitTrials /\ [][NextTrials]_vars

\* the number of steps a call at position g can still take, at most
StepsLeft(g) ==
    CASE g.pc = "idle"   -> CAttempts + 3
      [] g.pc = "trials" -> CAttempts + 2 - g.attempt
      [] g.pc = "fill"   -> 1
      [] g.pc = "done"   -> 0

\* C14: generateBoard terminates for every selection and every outcome of
\* the random source after at most 200 C-placement trials (no trial starts
\* once 200 have failed, and every step of the call brings the return
\* closer); when no trial places the C cards it returns the failure value
\* after the 200th trial.
C14_BoundedTrials ==
    /\ [](gen.attempt <= CAttempts /\ StepsLeft(gen) >= 0)
    /\ []((gen.pc = "done" /\ ~gen.placed)
            => /\ gen.attempt = CAttempts
               /\ gen.result = <<[ok |-> FALSE, board |-> EmptyBoard]>>)
    /\ [](gen.pc = "fill" => gen.attempt < CAttempts)
    /\ [][StepsLeft(gen') < StepsLeft(gen)]_vars

\* nine C cards, 200 trials that each ran into a dead end, and the failure
\* value returned
C14_Witness ==
    /\ gen.pc = "done"
    /\ Len(gen.cCards) = 9
    /\ ~gen.placed
    /\ gen.attempt = 200
    /\ gen.result # <<>> /\ ~gen.result[1].ok

\* validateSelection reports no error on the selection
SelectionValid == Len(validateSelection(selectedIds, tier, variantW)) = 0

\* Some choice of candidate slots for the cards of cCards from number k on
\* ends on a board that has no candidate for the next card.  Whether a
\* board has a candidate depends on the slots the C cards took and not on
\* the order they were taken in, so the slots of a choice are listed in
\* ascending order, from slot from on.
RECURSIVE deadEndAhead(_, _, _, _)
deadEndAhead(cCards, temp, k, from) ==
    /\ k <= Len(cCards)
    /\ \/ candidatesOf(temp) = <<>>
       \/ \E idx \in from .. 24 :
             /\ isCandidate(temp, idx)
             /\ deadEndAhead(cCards, [temp EXCEPT ![idx] = cCards[k]],
                             k + 1, idx + 1)

\* C25: for every tier/variant pair and every selection validateSelection
\* accepts, no C-placement trial of generateBoard reaches a card with no
\* legal slot, whichever candidate each pick takes (so no trial fails and
\* attempt stays 0), the board handed to the fill breaks no rule but
\* completeness, and the call returns a complete board: the final
\* validation does not reject it.
C25_NoDeadEndNoRejection ==
    SelectionValid =>
        /\ gen.attempt = 0
        /\ gen.pc = "trials" => ~deadEndAhead(gen.cCards, gen.board, 1, 0)
        /\ gen.pc = "fill" =>
              Range(validateBoard(gen.board, tier, variantW)) \subseteq {MsgIncomplete}
        /\ gen.pc = "done" =>
              /\ gen.result[1].ok
              /\ \A idx \in Slots : gen.result[1].board[idx] # null

\* a board returned in mode center+diagonal with a C card beside a D card
C25_Witness ==
    /\ SelectionValid
    /\ getWMode(tier, variantW).mode = "center+diagonal"
    /\ gen.pc = "done"
    /\ gen.result[1].ok
    /\ \E idx \in Slots :
          /\ slotType(gen.result[1].board, idx) = "C"
          /\ \E k \in DOMAIN adjacentIndices[idx] :
                slotType(gen.result[1].board, adjacentIndices[idx][k]) = "D"

\* C15: validation has no effect on the state: across a validateBoardAgainst(p)
\* call state.placements has the contents it had before, p is the board that
\* was passed in (the candidate differs from the previous one by the one slot
\* written before the call), and state.selectedIds, state.tier,
\* state.variantW and state.activeCardId are unchanged.
C15_ValidationFrame ==
    [][/\ placements' = placements
       /\ \E idx \in Slots :
             \A k \in Slots \ {idx} : candidate'[k] = candidate[k]
       /\ candErrors' = validateBoard(candidate', tier, variantW)
       /\ selectedIds' = selectedIds
       /\ tier' = tier
       /\ variantW' = variantW
       /\ activeCardId' = activeCardId]_vars

\* a candidate that differs from the page's board has been validated, with
\* errors, and the page's board is still the full board it was
C15_Witness ==
    /\ edits > 0
    /\ candidate # placements
    /\ candErrors # <<>>
    /\ placements = BaseBoard
    /\ Len(selectedIds) = 25

(***************************************************************************)
(* The dashboard's label map cache and applyLabelMapIfNeeded (the boards   *)
(* page script, lines 164-252).  The cache is the sequence of its entries  *)
(* in Map.set order.  A boards document is a record of the three top-level *)
(* fields the function reads and the cells of all its grids in forEach     *)
(* order; a cell is a record whose absent fields are null, object = FALSE  *)
(* marks a cell that is null or not an object; an absent seed is the empty *)
(* string.                                                                 *)
(***************************************************************************)
DEFAULT_SEED == <<50, 48, 50, 53, 87>>

\* labelMapCache.has(seed)
labelMapCacheHas(cache, seed) == \E i \in DOMAIN cache : cache[i].seed = seed

\* labelMapCache.get(seed)
labelMapCacheGet(cache, seed) ==
    cache[CHOOSE i \in DOMAIN cache : cache[i].seed = seed].map

\* lines 167-168: labelMapCache.set(seed, map); return map
labelMapCacheSet(cache, seed, map) ==
    [map |-> map, cache |-> Append(cache, [seed |-> seed, map |-> map])]

getLabelMapOneSlot(cache, seed, deck) ==
    IF cache # <<>> THEN [map |-> cache[1].map, cache |-> cache]
    ELSE labelMapCacheSet(cache, seed, buildLabelMap(seed, deck))

\* lines 164-169: the returned map and the cache after the call
getLabelMap(cache, seed, deck) ==
    IF labelMapCacheHas(cache, seed)
    THEN [map |-> labelMapCacheGet(cache, seed), cache |-> cache]
    ELSE labelMapCacheSet(cache, seed, buildLabelMap(seed, deck))

\* line 212: String(data.label_map_seed || DEFAULT_SEED).trim() || DEFAULT_SEED
seedOf(data) ==
    LET raw == IF data.label_map_seed = <<>> THEN DEFAULT_SEED
               ELSE data.label_map_seed
    IN  IF trim(raw) = <<>> THEN DEFAULT_SEED ELSE trim(raw)

\* lines 171-182: some cell is an object with a label field
hasLabelFields(data) ==
    \E i \in DOMAIN data.cells :
        data.cells[i].object /\ data.cells[i].label # null

\* labelMap.byLabel.get(label): null stands for undefined
byLabelGet(map, label) ==
    IF label \in DOMAIN map.byLabel THEN map.byLabel[label] ELSE null

\* lines 223-241: what the forEach body does to one cell; card is the deck
\* entry whose type, stars and title are copied
applyToCell(map, cell) ==
    IF ~cell.object THEN cell
    ELSE IF cell.code = null THEN cell
    ELSE IF byLabelGet(map, cell.code) = null THEN cell
    ELSE LET actual == byLabelGet(map, cell.code)
             typed  == [cell EXCEPT !.type = codeTypeOf(actual), !.card = actual]
         IN  IF actual # cell.code
             THEN [typed EXCEPT
                     !.label = IF cell.label # null THEN cell.label ELSE cell.code,
                     !.code  = actual]
             ELSE typed

\* lines 236-240: the cell sets updated
cellUpdates(map, cell) ==
    /\ cell.object
    /\ cell.code # null
    /\ byLabelGet(map, cell.code) # null
    /\ byLabelGet(map, cell.code) # cell.code

\* lines 218-251: the loop over the cells and the flags, given what
\* getLabelMap returned
applyWithMap(got, deck, data) ==
    LET updated == \E i \in DOMAIN data.cells :
                       cellUpdates(got.map, data.cells[i])
        cells   == [i \in DOMAIN data.cells |->
                       applyToCell(got.map, data.cells[i])]
    IN  [returned |-> updated,
         error    |-> null,
         after    |-> IF updated
                      THEN [label_map_applied |-> TRUE,
                            code_basis        |-> "actual",
                            label_map_seed    |-> seedOf(data),
                            cells             |-> cells]
                      ELSE [data EXCEPT !.cells = cells],
         cache    |-> got.cache,
         call     |-> <<[seed |-> seedOf(data), cardDeck |-> deck,
                         result |-> got.map]>>]

\* lines 209-210: the document needs no label map
skipsLabelMap(data) ==
    data.label_map_applied \/ data.code_basis = "actual" \/ hasLabelFields(data)

\* lines 208-252 once the deck is known: the returned value, the document
\* after the call, the cache after it, and the getLabelMap call made (none
\* when the function returns before line 216).  No path raises an error.
applyLabelMapIfNeeded(cache, deck, data) ==
    IF skipsLabelMap(data)
    THEN [returned |-> FALSE, error |-> null, after |-> data, cache |-> cache,
          call |-> <<>>]
    ELSE IF Len(deck) = 0
    THEN [returned |-> FALSE, error |-> null, after |-> data, cache |-> cache,
          call |-> <<>>]
    ELSE applyWithMap(getLabelMap(cache, seedOf(data), deck), deck, data)

(***************************************************************************)
(* Specification SpecDash: the dashboard applies the label map to the      *)
(* boards documents it fetches.  cardDeckPromise is "none", "pending" (the *)
(* deck fetch is under way) or "settled"; cardDeck is the deck it settled  *)
(* with (empty when the fetch failed or the file lists no card).  applied  *)
(* holds the applyLabelMapIfNeeded calls suspended at line 213 and the     *)
(* calls the last step completed.  A call made when the deck is settled,   *)
(* or that needs no deck, runs to its end before any other callback; the   *)
(* calls that wait for the deck continue, in call order, when it settles.  *)
(***************************************************************************)
MaxWaiting == 2

\* a cell with a code and nothing else
CellOf(code) ==
    [object |-> TRUE, code |-> code, label |-> null, type |-> null,
     card |-> null]

\* a null in a grid row
NullCell == [CellOf(null) EXCEPT !.object = FALSE]

DashCells ==
    { << CellOf("A01"), CellOf("A02"), CellOf("A03") >>,
      << CellOf("A02"), CellOf("Z99"), NullCell >>,
      << CellOf(null), CellOf("B01"), CellOf("W01") >> }

DashSeeds == { <<>>, <<48>>, <<87>>, <<32>>, <<160, 87, 32>> }

DashData ==
    { [label_map_applied |-> FALSE, code_basis |-> null,
       label_map_seed |-> sd, cells |-> cs] : sd \in DashSeeds, cs \in DashCells }
    \cup
    { [label_map_applied |-> TRUE, code_basis |-> "actual",
       label_map_seed |-> <<48>>, cells |-> << CellOf("A01") >>],
      [label_map_applied |-> FALSE, code_basis |-> "label",
       label_map_seed |-> <<>>,
       cells |-> << [CellOf("A01") EXCEPT !.label = "A02"] >>] }

\* what the deck file parses to: nothing, or one of two decks
DashDecks ==
    { <<>>,
      <<"A01", "A02", "A03">>,
      <<"W02", "A05", "C01", "A02", "W01", "C03", "B01", "A07", "A14", "A10">> }

InitDash ==
    /\ tier = "beginner"
    /\ variantW = TRUE
    /\ selectedIds = <<>>
    /\ placements = EmptyBoard
    /\ activeCardId = null
    /\ sent = <<>>
    /\ session = NoSession
    /\ candidate = EmptyBoard
    /\ candErrors = <<>>
    /\ edits = 0
    /\ genResult = <<>>
    /\ cards = <<>>
    /\ labelSeed = DEFAULT_SEED
    /\ NoLabelMap
    /\ gen = NoGen
    /\ NoDashboard
    /\ form = NoForm
    /\ NoAsync

\* a call suspended at  await loadCardDeck()  (line 213)
SuspendedCall(data) ==
    [data |-> data, pc |-> "suspended", returned |-> FALSE, error |-> null,
     after |-> data, call |-> <<>>]

\* a call that has returned, with what applyLabelMapIfNeeded gave
ReturnedCall(data, run) ==
    [data |-> data, pc |-> "returned", returned |-> run.returned,
     error |-> run.error, after |-> run.after, call |-> run.call]

suspendedCalls(calls) == SelectSeq(calls, LAMBDA c : c.pc = "suspended")

DashFrame ==
    UNCHANGED <<tier, variantW, selectedIds, placements, activeCardId,
                sent, candidate, candErrors, edits, genResult, session,
                cards, labelSeed, prevLabelMap, gen, form,
                loads, deckLoad, submits>>

\* loadBoards (line 380): applyLabelMapIfNeeded on a fetched document, up to
\* its return or to its suspension at line 213; the first call that needs
\* the deck starts the fetch (lines 121-122)
ApplyLabelMapIfNeeded(data) ==
    /\ IF skipsLabelMap(data) \/ cardDeckPromise = "settled"
       THEN \E run \in {applyLabelMapIfNeeded(labelMapCache, cardDeck, data)} :
                /\ labelMapCache' = run.cache
                /\ labelMap' = IF run.call = <<>> THEN labelMap ELSE run.call
                /\ applied' = Append(suspendedCalls(applied),
                                     ReturnedCall(data, run))
                /\ UNCHANGED <<cardDeckPromise, cardDeck>>
       ELSE /\ Len(suspendedCalls(applied)) < MaxWaiting
            /\ cardDeckPromise' = "pending"
            /\ applied' = Append(suspendedCalls(applied), SuspendedCall(data))
            /\ UNCHANGED <<labelMapCache, labelMap, cardDeck>>
    /\ DashFrame

\* the suspended calls from number st.i on continue with the deck, each on
\* the cache the one before it left; st holds the cache, the calls as
\* they returned and the last getLabelMap call
RECURSIVE resumeCalls(_, _, _)
resumeCalls(calls, deck, st) ==
    IF st.i > Len(calls) THEN st
    ELSE LET run == CHOOSE r \in {applyLabelMapIfNeeded(st.cache, deck,
                                                        calls[st.i].data)} : TRUE
         IN  resumeCalls(calls, deck,
                 [i        |-> st.i + 1,
                  cache    |-> run.cache,
                  returned |-> Append(st.returned,
                                      ReturnedCall(calls[st.i].data, run)),
                  labelMap |-> IF run.call = <<>> THEN st.labelMap
                               ELSE run.call])

\* lines 122-133: the deck fetch settles, parsed is what the file yields;
\* the calls suspended at line 213 continue (lines 214-252)
CardDeckSettles(parsed) ==
    /\ cardDeckPromise = "pending"
    /\ cardDeckPromise' = "settled"
    /\ cardDeck' = parsed
    /\ \E end \in {resumeCalls(suspendedCalls(applied), parsed,
                                [i |-> 1, cache |-> labelMapCache,
                                 returned |-> <<>>, labelMap |-> labelMap])} :
           /\ labelMapCache' = end.cache
           /\ labelMap' = end.labelMap
           /\ applied' = end.returned
    /\ DashFrame

NextDash ==
    \/ \E data \in DashData : ApplyLabelMapIfNeeded(data)
    \/ \E parsed \in DashDecks : CardDeckSettles(parsed)

SpecDash == InitDash /\ [][NextDash]_vars

\* C16: every getLabelMap(seed, deck) call returns the map buildLabelMap gives
\* for the call's own seed and deck, whatever calls came before; the cache
\* keeps one entry per seed, each the map of its seed, and a call never
\* changes or drops an entry that is already there.
C16_CacheAgreesWithBuild ==
    /\ [](\A c \in DOMAIN labelMap :
             labelMap[c].result
                 = buildLabelMap(labelMap[c].seed, labelMap[c].cardDeck))
    /\ [](\A k \in DOMAIN applied : \A c \in DOMAIN applied[k].call :
             applied[k].call[c].result
                 = buildLabelMap(applied[k].call[c].seed,
                                 applied[k].call[c].cardDeck))
    /\ [](\A i, j \in DOMAIN labelMapCache :
             /\ labelMapCache[i].map
                    = buildLabelMap(labelMapCache[i].seed, cardDeck)
             /\ (labelMapCache[i].seed = labelMapCache[j].seed => i = j))
    /\ [][\A i \in DOMAIN labelMapCache :
             /\ i \in DOMAIN labelMapCache'
             /\ labelMapCache'[i] = labelMapCache[i]]_vars

\* three seeds are cached and the last call was answered from the cache with
\* a map that differs from another seed's
C16_Witness ==
    /\ Len(labelMapCache) = 3
    /\ labelMap # <<>>
    /\ labelMap[1].seed = labelMapCache[1].seed
    /\ labelMap[1].result = labelMapCache[1].map
    /\ labelMapCache[1].map.byId # labelMapCache[2].map.byId
    /\ Len(cardDeck) = 10

\* the cells of a document whose code the label map does not know
UnknownCells(a) ==
    {i \in DOMAIN a.data.cells :
        /\ a.data.cells[i].object
        /\ a.data.cells[i].code # null
        /\ a.data.cells[i].code \notin DOMAIN a.call[1].result.byLabel}

\* C17: when applyLabelMapIfNeeded meets a cell code that labelMap.byLabel
\* does not contain, the caller learns of it: the call raises an error
\* (UnknownCardError) instead of passing over the cell silently.
C17_UnknownCodeReported ==
    \A k \in DOMAIN applied :
        (applied[k].call # <<>> /\ UnknownCells(applied[k]) # {})
            => applied[k].error # null

(***************************************************************************)
(* The submit page (docs/submit.js).  Text is a sequence of UTF-16 code    *)
(* units; form.claims holds the values of the .claim-input elements in     *)
(* document order, form.tokenEvent the value of the tokenEvent select,     *)
(* form.apiBase the stored server address (empty when none is stored),     *)
(* form.files whether a screenshot is attached.                            *)
(***************************************************************************)
\* String.prototype.toUpperCase, by the case mappings of Unicode 17.0.
\* UpperCaseRanges: <<first, last, step, shift>>, the units first,
\* first + step, ... up to last map to themselves plus shift
UpperCaseRanges ==
    { <<411, 411, 1, 42561>>, <<612, 612, 1, 42343>>,
      <<7306, 7306, 1, -1>>, <<42957, 42959, 2, -1>>,
      <<42963, 42965, 2, -1>>, <<42971, 42971, 1, -1>>,
      <<97, 122, 1, -32>>, <<181, 181, 1, 743>>, <<224, 246, 1, -32>>,
      <<248, 254, 1, -32>>, <<255, 255, 1, 121>>, <<257, 303, 2, -1>>,
      <<305, 305, 1, -232>>, <<307, 311, 2, -1>>, <<314, 328, 2, -1>>,
      <<331, 375, 2, -1>>, <<378, 382, 2, -1>>, <<383, 383, 1, -300>>,
      <<384, 384, 1, 195>>, <<387, 389, 2, -1>>, <<392, 392, 1, -1>>,
      <<396, 396, 1, -1>>, <<402, 402, 1, -1>>, <<405, 405, 1, 97>>,
      <<409, 409, 1, -1>>, <<410, 410, 1, 163>>, <<414, 414, 1, 130>>,
      <<417, 421, 2, -1>>, <<424, 424, 1, -1>>, <<429, 429, 1, -1>>,
      <<432, 432, 1, -1>>, <<436, 438, 2, -1>>, <<441, 441, 1, -1>>,
      <<445, 445, 1, -1>>, <<447, 447, 1, 56>>, <<453, 453, 1, -1>>,
      <<454, 454, 1, -2>>, <<456, 456, 1, -1>>, <<457, 457, 1, -2>>,
      <<459, 459, 1, -1>>, <<460, 460, 1, -2>>, <<462, 476, 2, -1>>,
      <<477, 477, 1, -79>>, <<479, 495, 2, -1>>, <<498, 498, 1, -1>>,
      <<499, 499, 1, -2>>, <<501, 501, 1, -1>>, <<505, 543, 2, -1>>,
      <<547, 563, 2, -1>>, <<572, 572, 1, -1>>, <<575, 576, 1, 10815>>,
      <<578, 578, 1, -1>>, <<583, 591, 2, -1>>, <<592, 592, 1, 10783>>,
      <<593, 593, 1, 10780>>, <<594, 594, 1, 10782>>, <<595, 595, 1, -210>>,
      <<596, 596, 1, -206>>, <<598, 599, 1, -205>>, <<601, 601, 1, -202>>,
      <<603, 603, 1, -203>>, <<604, 604, 1, 42319>>, <<608, 608, 1, -205>>,
      <<609, 609, 1, 42315>>, <<611, 611, 1, -207>>, <<613, 613, 1, 42280>>,
      <<614, 614, 1, 42308>>, <<616, 616, 1, -209>>, <<617, 617, 1, -211>>,
      <<618, 618, 1, 42308>>, <<619, 619, 1, 10743>>, <<620, 620, 1, 42305>>,
      <<623, 623, 1, -211>>, <<625, 625, 1, 10749>>, <<626, 626, 1, -213>>,
      <<629, 629, 1, -214>>, <<637, 637, 1, 10727>>, <<640, 640, 1, -218>>,
      <<642, 642, 1, 42307>>, <<643, 643, 1, -218>>, <<647, 647, 1, 42282>>,
      <<648, 648, 1, -218>>, <<649, 649, 1, -69>>, <<650, 651, 1, -217>>,
      <<652, 652, 1, -71>>, <<658, 658, 1, -219>>, <<669, 669, 1, 42261>>,
      <<670, 670, 1, 42258>>, <<837, 837, 1, 84>>, <<881, 883, 2, -1>>,
      <<887, 887, 1, -1>>, <<891, 893, 1, 130>>, <<940, 940, 1, -38>>,
      <<941, 943, 1, -37>>, <<945, 961, 1, -32>>, <<962, 962, 1, -31>>,
      <<963, 971, 1, -32>>, <<972, 972, 1, -64>>, <<973, 974, 1, -63>>,
      <<976, 976, 1, -62>>, <<977, 977, 1, -57>>, <<981, 981, 1, -47>>,
      <<982, 982, 1, -54>>, <<983, 983, 1, -8>>, <<985, 1007, 2, -1>>,
      <<1008, 1008, 1, -86>>, <<1009, 1009, 1, -80>>, <<1010, 1010, 1, 7>>,
      <<1011, 1011, 1, -116>>, <<1013, 1013, 1, -96>>, <<1016, 1016, 1, -1>>,
      <<1019, 1019, 1, -1>>, <<1072, 1103, 1, -32>>, <<1104, 1119, 1, -80>>,
      <<1121, 1153, 2, -1>>, <<1163, 1215, 2, -1>>, <<1218, 1230, 2, -1>>,
      <<1231, 1231, 1, -15>>, <<1233, 1327, 2, -1>>, <<1377, 1414, 1, -48>>,
      <<4304, 4346, 1, 3008>>, <<4349, 4351, 1, 3008>>, <<5112, 5117, 1, -8>>,
      <<7296, 7296, 1, -6254>>, <<7297, 7297, 1, -6253>>,
      <<7298, 7298, 1, -6244>>, <<7299, 7300, 1, -6242>>,
      <<7301, 7301, 1, -6243>>, <<7302, 7302, 1, -6236>>,
      <<7303, 7303, 1, -6181>>, <<7304, 7304, 1, 35266>>,
      <<7545, 7545, 1, 35332>>, <<7549, 7549, 1, 3814>>,
      <<7566, 7566, 1, 35384>>, <<7681, 7829, 2, -1>>, <<7835, 7835, 1, -59>>,
      <<7841, 7935, 2, -1>>, <<7936, 7943, 1, 8>>, <<7952, 7957, 1, 8>>,
      <<7968, 7975, 1, 8>>, <<7984, 7991, 1, 8>>, <<8000, 8005, 1, 8>>,
      <<8017, 8023, 2, 8>>, <<8032, 8039, 1, 8>>, <<8048, 8049, 1, 74>>,
      <<8050, 8053, 1, 86>>, <<8054, 8055, 1, 100>>, <<8056, 8057, 1, 128>>,
      <<8058, 8059, 1, 112>>, <<8060, 8061, 1, 126>>, <<8112, 8113, 1, 8>>,
      <<8126, 8126, 1, -7205>>, <<8144, 8145, 1, 8>>, <<8160, 8161, 1, 8>>,
      <<8165, 8165, 1, 7>>, <<8526, 8526, 1, -28>>, <<8560, 8575, 1, -16>>,
      <<8580, 8580, 1, -1>>, <<9424, 9449, 1, -26>>, <<11312, 11359, 1, -48>>,
      <<11361, 11361, 1, -1>>, <<11365, 11365, 1, -10795>>,
      <<11366, 11366, 1, -10792>>, <<11368, 11372, 2, -1>>,
      <<11379, 11379, 1, -1>>, <<11382, 11382, 1, -1>>,
      <<11393, 11491, 2, -1>>, <<11500, 11502, 2, -1>>,
      <<11507, 11507, 1, -1>>, <<11520, 11557, 1, -7264>>,
      <<11559, 11559, 1, -7264>>, <<11565, 11565, 1, -7264>>,
      <<42561, 42605, 2, -1>>, <<42625, 42651, 2, -1>>,
      <<42787, 42799, 2, -1>>, <<42803, 42863, 2, -1>>,
      <<42874, 42876, 2, -1>>, <<42879, 42887, 2, -1>>,
      <<42892, 42892, 1, -1>>, <<42897, 42899, 2, -1>>,
      <<42900, 42900, 1, 48>>, <<42903, 42921, 2, -1>>,
      <<42933, 42947, 2, -1>>, <<42952, 42954, 2, -1>>,
      <<42961, 42961, 1, -1>>, <<42967, 42969, 2, -1>>,
      <<42998, 42998, 1, -1>>, <<43859, 43859, 1, -928>>,
      <<43888, 43967, 1, -38864>>, <<65345, 65370, 1, -32>> }

\* the units that map to more than one unit, with what they map to
UpperCaseSpecial ==
    { <<223, <<83, 83>>>>, <<329, <<700, 78>>>>, <<496, <<74, 780>>>>,
      <<912, <<921, 776, 769>>>>, <<944, <<933, 776, 769>>>>,
      <<1415, <<1333, 1362>>>>, <<7830, <<72, 817>>>>, <<7831, <<84, 776>>>>,
      <<7832, <<87, 778>>>>, <<7833, <<89, 778>>>>, <<7834, <<65, 702>>>>,
      <<8016, <<933, 787>>>>, <<8018, <<933, 787, 768>>>>,
      <<8020, <<933, 787, 769>>>>, <<8022, <<933, 787, 834>>>>,
      <<8064, <<7944, 921>>>>, <<8065, <<7945, 921>>>>,
      <<8066, <<7946, 921>>>>, <<8067, <<7947, 921>>>>,
      <<8068, <<7948, 921>>>>, <<8069, <<7949, 921>>>>,
      <<8070, <<7950, 921>>>>, <<8071, <<7951, 921>>>>,
      <<8072, <<7944, 921>>>>, <<8073, <<7945, 921>>>>,
      <<8074, <<7946, 921>>>>, <<8075, <<7947, 921>>>>,
      <<8076, <<7948, 921>>>>, <<8077, <<7949, 921>>>>,
      <<8078, <<7950, 921>>>>, <<8079, <<7951, 921>>>>,
      <<8080, <<7976, 921>>>>, <<8081, <<7977, 921>>>>,
      <<8082, <<7978, 921>>>>, <<8083, <<7979, 921>>>>,
      <<8084, <<7980, 921>>>>, <<8085, <<7981, 921>>>>,
      <<8086, <<7982, 921>>>>, <<8087, <<7983, 921>>>>,
      <<8088, <<7976, 921>>>>, <<8089, <<7977, 921>>>>,
      <<8090, <<7978, 921>>>>, <<8091, <<7979, 921>>>>,
      <<8092, <<7980, 921>>>>, <<8093, <<7981, 921>>>>,
      <<8094, <<7982, 921>>>>, <<8095, <<7983, 921>>>>,
      <<8096, <<8040, 921>>>>, <<8097, <<8041, 921>>>>,
      <<8098, <<8042, 921>>>>, <<8099, <<8043, 921>>>>,
      <<8100, <<8044, 921>>>>, <<8101, <<8045, 921>>>>,
      <<8102, <<8046, 921>>>>, <<8103, <<8047, 921>>>>,
      <<8104, <<8040, 921>>>>, <<8105, <<8041, 921>>>>,
      <<8106, <<8042, 921>>>>, <<8107, <<8043, 921>>>>,
      <<8108, <<8044, 921>>>>, <<8109, <<8045, 921>>>>,
      <<8110, <<8046, 921>>>>, <<8111, <<8047, 921>>>>,
      <<8114, <<8122, 921>>>>, <<8115, <<913, 921>>>>, <<8116, <<902, 921>>>>,
      <<8118, <<913, 834>>>>, <<8119, <<913, 834, 921>>>>,
      <<8124, <<913, 921>>>>, <<8130, <<8138, 921>>>>, <<8131, <<919, 921>>>>,
      <<8132, <<905, 921>>>>, <<8134, <<919, 834>>>>,
      <<8135, <<919, 834, 921>>>>, <<8140, <<919, 921>>>>,
      <<8146, <<921, 776, 768>>>>, <<8147, <<921, 776, 769>>>>,
      <<8150, <<921, 834>>>>, <<8151, <<921, 776, 834>>>>,
      <<8162, <<933, 776, 768>>>>, <<8163, <<933, 776, 769>>>>,
      <<8164, <<929, 787>>>>, <<8166, <<933, 834>>>>,
      <<8167, <<933, 776, 834>>>>, <<8178, <<8186, 921>>>>,
      <<8179, <<937, 921>>>>, <<8180, <<911, 921>>>>, <<8182, <<937, 834>>>>,
      <<8183, <<937, 834, 921>>>>, <<8188, <<937, 921>>>>,
      <<64256, <<70, 70>>>>, <<64257, <<70, 73>>>>, <<64258, <<70, 76>>>>,
      <<64259, <<70, 70, 73>>>>, <<64260, <<70, 70, 76>>>>,
      <<64261, <<83, 84>>>>, <<64262, <<83, 84>>>>, <<64275, <<1348, 1350>>>>,
      <<64276, <<1348, 1333>>>>, <<64277, <<1348, 1339>>>>,
      <<64278, <<1358, 1350>>>>, <<64279, <<1348, 1341>>>> }

\* the same as UpperCaseRanges for the code points above 65535, which a
\* string holds as a pair of surrogate units
UpperCaseAstral ==
    { <<66600, 66639, 1, -40>>, <<66776, 66811, 1, -40>>,
      <<66967, 66977, 1, -39>>, <<66979, 66993, 1, -39>>,
      <<66995, 67001, 1, -39>>, <<67003, 67004, 1, -39>>,
      <<68800, 68850, 1, -64>>, <<68976, 68997, 1, -32>>,
      <<71872, 71903, 1, -32>>, <<93883, 93907, 1, -27>>,
      <<93792, 93823, 1, -32>>, <<125218, 125251, 1, -34>> }

inUpperRange(r, u) == u >= r[1] /\ u <= r[2] /\ (u - r[1]) % r[3] = 0

\* the upper case of a code point, from a table of ranges
upperByRanges(ranges, u) ==
    IF \E r \in ranges : inUpperRange(r, u)
    THEN u + (CHOOSE r \in ranges : inUpperRange(r, u))[4]
    ELSE u

\* the units one unit outside a surrogate pair maps to
toUpperUnit(u) ==
    IF u < 97 THEN <<u>>
    ELSE IF \E s \in UpperCaseSpecial : s[1] = u
    THEN (CHOOSE s \in UpperCaseSpecial : s[1] = u)[2]
    ELSE <<upperByRanges(UpperCaseRanges, u)>>

isHighSurrogate(u) == u \in 55296 .. 56319

isLowSurrogate(u) == u \in 56320 .. 57343

\* the two units of the upper case of the code point the pair hi, lo holds
toUpperPair(hi, lo) ==
    LET cp == upperByRanges(UpperCaseAstral,
                            65536 + (hi - 55296) * 1024 + (lo - 56320))
    IN  <<55296 + ((cp - 65536) \div 1024), 56320 + ((cp - 65536) % 1024)>>

RECURSIVE toUpperCaseFrom(_, _)
toUpperCaseFrom(str, i) ==
    IF i > Len(str) THEN <<>>
    ELSE IF i < Len(str) /\ isHighSurrogate(str[i]) /\ isLowSurrogate(str[i + 1])
    THEN toUpperPair(str[i], str[i + 1]) \o toUpperCaseFrom(str, i + 2)
    ELSE toUpperUnit(str[i]) \o toUpperCaseFrom(str, i + 1)

toUpperCase(str) == toUpperCaseFrom(str, 1)

\* \d
isDigit(u) == u \in 48 .. 57

\* [ABCDW]
isTypeLetter(u) == u \in {65, 66, 67, 68, 87}

\* lines 227-233
normalizeLabel(value) ==
    LET raw == SelectSeq(toUpperCase(trim(value)), LAMBDA u : ~isWhiteSpace(u))
    IN  IF raw = <<>> THEN <<>>
        ELSE IF Len(raw) = 2 /\ isTypeLetter(raw[1]) /\ isDigit(raw[2])
        THEN <<raw[1], 48, raw[2]>>
        ELSE raw

\* lines 220-225
collectClaimLabels(claims) ==
    SelectSeq([i \in DOMAIN claims |-> normalizeLabel(claims[i])],
              LAMBDA v : Len(v) > 0)

\* line 236: labelPattern.test(label)
labelPatternTest(label) ==
    Len(label) = 3 /\ isTypeLetter(label[1]) /\ isDigit(label[2])
        /\ isDigit(label[3])

\* lines 239-249: counts[t] for a type letter t
countOfLetter(labels, t) ==
    Cardinality({i \in DOMAIN labels :
                    labelPatternTest(labels[i]) /\ labels[i][1] = t})

previewRulesNoTypeCap(labels, allowEmpty) ==
    (IF Len(labels) = 0 /\ ~allowEmpty THEN <<"NEED_ONE">> ELSE <<>>)
    \o (IF \E i \in DOMAIN labels : ~labelPatternTest(labels[i])
        THEN <<"BAD_FORMAT">> ELSE <<>>)
    \o (IF Len(labels) > 2 THEN <<"MAX_TWO">> ELSE <<>>)

\* lines 235-261: the warnings, one code per message text
previewRules(labels, allowEmpty) ==
    (IF Len(labels) = 0 /\ ~allowEmpty THEN <<"NEED_ONE">> ELSE <<>>)
    \o (IF \E i \in DOMAIN labels : ~labelPatternTest(labels[i])
        THEN <<"BAD_FORMAT">> ELSE <<>>)
    \o (IF Len(labels) > 2 THEN <<"MAX_TWO">> ELSE <<>>)
    \o (IF countOfLetter(labels, 65) > 1 THEN <<"A_MAX">> ELSE <<>>)
    \o (IF countOfLetter(labels, 66) > 1 THEN <<"B_MAX">> ELSE <<>>)
    \o (IF countOfLetter(labels, 67) > 1 THEN <<"C_MAX">> ELSE <<>>)

\* "seal" and "shield"
SEAL == <<115, 101, 97, 108>>

SHIELD == <<115, 104, 105, 101, 108, 100>>

\* line 576
allowEmptyFor(tokenEvent) == trim(tokenEvent) \in {SEAL, SHIELD}

\* lines 17-21: trimmed, and without the slashes at its end
RECURSIVE dropEndSlashes(_)
dropEndSlashes(str) ==
    IF str # <<>> /\ str[Len(str)] = 47
    THEN dropEndSlashes(SubSeq(str, 1, Len(str) - 1)) ELSE str

normalizeBaseUrl(url) == dropEndSlashes(trim(url))

\* str.split(","): the pieces between the commas
RECURSIVE splitAtCommas(_)
splitAtCommas(str) ==
    IF \E i \in DOMAIN str : str[i] = 44
    THEN LET first == CHOOSE i \in DOMAIN str :
                          str[i] = 44 /\ \A j \in 1 .. i - 1 : str[j] # 44
         IN  <<SubSeq(str, 1, first - 1)>>
                 \o splitAtCommas(SubSeq(str, first + 1, Len(str)))
    ELSE <<str>>

\* lines 600-606: the names of the group names input, none when it is blank
groupNamesOf(text) ==
    IF trim(text) = <<>> THEN <<>>
    ELSE LET pieces == splitAtCommas(trim(text))
         IN  SelectSeq([i \in DOMAIN pieces |-> trim(pieces[i])],
                       LAMBDA name : name # <<>>)

\* lines 562-598: the form data of a handleSubmit run, <<>> when the run
\* returns at one of the checks.  Of the fields of the form data the model
\* keeps claimed_labels and token_event; group_tiers (lines 616-638) and
\* the other fields are not kept.
submitRequest(f) ==
    LET labels     == collectClaimLabels(f.claims)
        allowEmpty == allowEmptyFor(f.tokenEvent)
        tokenOnly  == allowEmpty /\ Len(labels) = 0
    IN  IF normalizeBaseUrl(f.apiBase) = <<>> THEN <<>>
        ELSE IF Len(previewRules(labels, allowEmpty)) > 0 THEN <<>>
        ELSE IF ~tokenOnly /\ ~f.files THEN <<>>
        ELSE <<[claimed_labels |-> labels, token_event |-> f.tokenEvent]>>

(***************************************************************************)
(* Specification SpecSubmit: the user fills the submit form and submits.   *)
(***************************************************************************)
NumClaimInputs == 3

\* what is typed into a claim input: nothing, "a1", " b 07 " (the first
\* space an ideographic space), "A02", "C03", "E05", "A123"
ClaimTexts ==
    { <<>>, <<97, 49>>, <<12288, 98, 32, 48, 55, 32>>, <<65, 48, 50>>,
      <<67, 48, 51>>, <<69, 48, 53>>, <<65, 49, 50, 51>> }

\* the options of the tokenEvent select: none, "seal", "shield", and "seal"
\* followed by a byte order mark
TokenEvents == { <<>>, SEAL, SHIELD, SEAL \o <<65279>> }

InitSubmit ==
    /\ tier = "beginner"
    /\ variantW = TRUE
    /\ selectedIds = <<>>
    /\ placements = EmptyBoard
    /\ activeCardId = null
    /\ sent = <<>>
    /\ session = NoSession
    /\ candidate = EmptyBoard
    /\ candErrors = <<>>
    /\ edits = 0
    /\ genResult = <<>>
    /\ cards = <<>>
    /\ labelSeed = SEASON_SEED
    /\ NoLabelMap
    /\ gen = NoGen
    /\ NoDashboard
    /\ form = [NoForm EXCEPT !.claims = [i \in 1 .. NumClaimInputs |-> <<>>]]
    /\ NoAsync

\* what the steps of the submit page leave alone
SubmitFrame ==
    UNCHANGED <<tier, variantW, selectedIds, placements, activeCardId,
                candidate, candErrors, edits, genResult, session,
                cards, labelSeed, cardDeck, labelMap, prevLabelMap, gen,
                labelMapCache, cardDeckPromise, applied,
                loads, deckLoad>>

(***************************************************************************)
(* handleSubmit runs.  A run is suspended at the await of loadTierIndex    *)
(* (line 609, pc "tier") with the form data fd it built and the names it   *)
(* read before, or its POST is in flight (pc "posting"); submits.runs      *)
(* holds the runs that have not returned, in the order of their submit     *)
(* events.  A submit event reaches handleSubmit only while the submit      *)
(* button is enabled.  An await of a promise that is already settled is    *)
(* resumed before the next event.  sent is the POSTs the last step issued. *)
(* No submit event is followed while MaxSubmits runs have not returned,    *)
(* and while a run is suspended at most MaxWaitEdits edits of the form are *)
(* followed (submits.edits counts them).                                   *)
(***************************************************************************)
MaxSubmits == 2

MaxWaitEdits == 1

TierRun(fd, names) == [pc |-> "tier", fd |-> fd, names |-> names]

PostingRun == [pc |-> "posting", fd |-> <<>>, names |-> <<>>]

\* the runs suspended at line 609
tierWaiters(runs) == SelectSeq(runs, LAMBDA run : run.pc = "tier")

\* an edit of the form is followed
editAllowed == tierWaiters(submits.runs) = <<>> \/ submits.edits < MaxWaitEdits

submitsAfterEdit ==
    [submits EXCEPT !.edits = IF tierWaiters(submits.runs) = <<>>
                              THEN 0 ELSE submits.edits + 1]

\* the user types into claim input i
TypeClaim(i, text) ==
    /\ editAllowed
    /\ form.claims[i] # text
    /\ form' = [form EXCEPT !.claims[i] = text]
    /\ sent' = <<>>
    /\ submits' = submitsAfterEdit
    /\ SubmitFrame

\* the user picks a token event
ChooseTokenEvent(e) ==
    /\ editAllowed
    /\ form.tokenEvent # e
    /\ form' = [form EXCEPT !.tokenEvent = e]
    /\ sent' = <<>>
    /\ submits' = submitsAfterEdit
    /\ SubmitFrame

\* what the server address field holds at a click on saveConnBtn: nothing,
\* "  ///  ", "h", "h/"
ConnAddresses ==
    { <<>>, <<32, 32, 47, 47, 47, 32, 32>>, <<104>>, <<104, 47>> }

\* handleSaveConn (lines 676-691): saveConn stores the normalised address
\* of the field, also when it is empty (lines 274-281)
SaveConn(address) ==
    /\ editAllowed
    /\ form' = [form EXCEPT !.apiBase = normalizeBaseUrl(address)]
    /\ sent' = <<>>
    /\ submits' = submitsAfterEdit
    /\ SubmitFrame

\* the user attaches or removes the screenshot
ToggleFiles ==
    /\ editAllowed
    /\ form' = [form EXCEPT !.files = ~form.files]
    /\ sent' = <<>>
    /\ submits' = submitsAfterEdit
    /\ SubmitFrame

\* the names "n1" and "n2"
NameOne == <<110, 49>>

NameTwo == <<110, 50>>

\* what the group names input holds: nothing, "n1", " n2, ,n1"
GroupTexts == { <<>>, NameOne, <<32>> \o NameTwo \o <<44, 32, 44>> \o NameOne }

\* the user writes into the group names input (read at line 600)
EditGroupNames(text) ==
    /\ editAllowed
    /\ form.groupNames # text
    /\ form' = [form EXCEPT !.groupNames = text]
    /\ sent' = <<>>
    /\ submits' = submitsAfterEdit
    /\ SubmitFrame

\* lines 570-588: the run gets past the connection, rule and file checks
passesChecks(f) == submitRequest(f) # <<>>

\* lines 608-631: what a run with the names names does once the promise of
\* loadTierIndex is settled: it returns when the promise is rejected, when
\* the index is empty and when a name has no tier, and goes on to the fetch
\* otherwise
afterTierIndex(promise, names) ==
    IF promise.state = "rejected" THEN "returned"
    ELSE IF promise.index = {} THEN "returned"
    ELSE IF \E i \in DOMAIN names : names[i] \notin promise.index
    THEN "returned"
    ELSE "posting"

\* the run goes on to the fetch once promise is settled
postsAfter(promise, run) ==
    run.pc = "tier" /\ afterTierIndex(promise, run.names) = "posting"

\* the runs suspended at line 609 continue, each with its own names: to the
\* fetch or to a return
resumeTierWaiters(runs, promise) ==
    SelectSeq([r \in DOMAIN runs |->
                  IF postsAfter(promise, runs[r]) THEN PostingRun ELSE runs[r]],
              LAMBDA run : run.pc = "posting")

\* the form data of the suspended runs that go on to the fetch, in the
\* order of their submit events
postsOfWaiters(runs, promise) ==
    LET posting == SelectSeq(runs, LAMBDA run : postsAfter(promise, run))
    IN  [r \in DOMAIN posting |-> posting[r].fd]

\* lines 640-650: the run disables the button and sends fd
StartPost(fd) ==
    /\ sent' = <<fd>>
    /\ submits' = [submits EXCEPT !.runs = Append(submits.runs, PostingRun),
                                  !.disabled = TRUE]

\* the submit event (line 701): handleSubmit up to its first suspension on
\* a promise that is not settled.  A run without group names goes on to the
\* fetch; a run with names calls loadTierIndex, which starts the load when
\* tierIndexPromise is null (lines 124-126)
SubmitEvent ==
    /\ ~submits.disabled
    /\ Len(submits.runs) < MaxSubmits
    /\ LET request == submitRequest(form)
           names   == groupNamesOf(form.groupNames)
       IN  IF request = <<>>
           THEN sent' = <<>> /\ UNCHANGED submits
           ELSE IF names = <<>>
           THEN StartPost(request[1])
           ELSE IF submits.tierIndexPromise.state \in {"none", "pending"}
           THEN /\ sent' = <<>>
                /\ submits' = [submits EXCEPT
                                  !.runs = Append(submits.runs,
                                                  TierRun(request[1], names)),
                                  !.tierIndexPromise =
                                      TierIndexPromise("pending", {})]
           ELSE IF afterTierIndex(submits.tierIndexPromise, names) = "posting"
           THEN StartPost(request[1])
           ELSE sent' = <<>> /\ UNCHANGED submits
    /\ UNCHANGED form
    /\ SubmitFrame

\* the names the boards file has a tier for: none, n1, n1 and n2
TierIndexes == { {}, {NameOne}, {NameOne, NameTwo} }

\* the ways tierIndexPromise settles
TierIndexOutcomes ==
    { TierIndexPromise("rejected", {}) }
        \cup { TierIndexPromise("fulfilled", index) : index \in TierIndexes }

\* lines 124-140: tierIndexPromise settles; every run suspended on it
\* continues, in the order of the submit events, to one of its returns or
\* to lines 640-650, where it disables the button and sends the form data
\* it built before the await
TierIndexSettles(promise) ==
    /\ submits.tierIndexPromise.state = "pending"
    /\ sent' = postsOfWaiters(submits.runs, promise)
    /\ submits' = [submits EXCEPT
                      !.tierIndexPromise = promise,
                      !.runs = resumeTierWaiters(submits.runs, promise),
                      !.disabled =
                          IF postsOfWaiters(submits.runs, promise) # <<>>
                          THEN TRUE ELSE submits.disabled,
                      !.edits = 0]
    /\ UNCHANGED form
    /\ SubmitFrame

\* lines 646-673: the request of run r settles with a good response or
\* with an error; the finally block enables the button
PostSettles(r, ok) ==
    /\ r \in DOMAIN submits.runs
    /\ submits.runs[r].pc = "posting"
    /\ sent' = <<>>
    /\ submits' = [submits EXCEPT
                      !.runs = SubSeq(submits.runs, 1, r - 1)
                                  \o SubSeq(submits.runs, r + 1, Len(submits.runs)),
                      !.disabled = FALSE]
    /\ UNCHANGED form
    /\ SubmitFrame

NextSubmit ==
    \/ \E i \in 1 .. NumClaimInputs, text \in ClaimTexts : TypeClaim(i, text)
    \/ \E e \in TokenEvents : ChooseTokenEvent(e)
    \/ \E address \in ConnAddresses : SaveConn(address)
    \/ ToggleFiles
    \/ \E text \in GroupTexts : EditGroupNames(text)
    \/ SubmitEvent
    \/ \E promise \in TierIndexOutcomes : TierIndexSettles(promise)
    \/ \E r \in 1 .. MaxSubmits, ok \in BOOLEAN : PostSettles(r, ok)

SpecSubmit == InitSubmit /\ [][NextSubmit]_vars

\* the claimed labels of a POST whose first code unit is t
LabelsOfLetter(labels, t) == {i \in DOMAIN labels : labels[i][1] = t}

\* C18: handleSubmit issues the POST only when the claimed labels are at
\* most 2, each is one letter of A, B, C, D, W followed by two digits, at
\* most one is of type A, at most one of type B and at most one of type C,
\* and there are none only when the token event is seal or shield.
C18_PostObeysClaimRules ==
    \A k \in DOMAIN sent :
        LET labels == sent[k].claimed_labels
        IN  /\ Len(labels) <= 2
            /\ \A i \in DOMAIN labels :
                   /\ Len(labels[i]) = 3
                   /\ labels[i][1] \in {65, 66, 67, 68, 87}
                   /\ labels[i][2] \in 48 .. 57
                   /\ labels[i][3] \in 48 .. 57
            /\ Cardinality(LabelsOfLetter(labels, 65)) <= 1
            /\ Cardinality(LabelsOfLetter(labels, 66)) <= 1
            /\ Cardinality(LabelsOfLetter(labels, 67)) <= 1
            /\ Len(labels) = 0 => trim(sent[k].token_event) \in {SEAL, SHIELD}

\* a POST with the two labels A01 and B07, normalised from "a1" and
\* " b 07 ", sent when the tier index loads, after "a1" was replaced in the
\* form
C18_Witness ==
    /\ sent # <<>>
    /\ sent[1].claimed_labels = << <<65, 48, 49>>, <<66, 48, 55>> >>
    /\ submits.tierIndexPromise.state = "fulfilled"
    /\ <<97, 49>> \notin Range(form.claims)

(***************************************************************************)
(* The selection and the board of the picker page, under Spec.             *)
(***************************************************************************)
\* C19: in every state reached by selectCard, deselectCard, autoSelect, tier
\* changes and variant toggles, the number of selected cards of each type is
\* at most getRequiredCounts()[type] for the current tier and variant.
C19_SelectionWithinQuota ==
    \A ty \in Range(TypeKeys) :
        getSelectedCounts(selectedIds)[ty]
            <= getRequiredCounts(tier, variantW)[ty]

\* C20: every non-empty slot of state.placements holds an id of
\* state.selectedIds, and no id is in two slots.
C20_PlacementsInjective ==
    /\ \A idx \in Slots :
           placements[idx] # null => isSelected(selectedIds, placements[idx])
    /\ \A i, j \in Slots :
           (placements[i] # null /\ placements[i] = placements[j]) => i = j

\* W02 sits on the centre slot while W01 is selected and off the board, and
\* C01, placed by hand on slot 0, is still there
C20_Witness ==
    /\ session.grid # {}
    /\ placements[12] = "W02"
    /\ placements[0] = "C01"
    /\ isSelected(selectedIds, "W01")
    /\ ~isPlaced(placements, "W01")

(***************************************************************************)
(* validateBoard against the selection, under SpecVal: the candidate is    *)
(* BaseBoard rewritten with cards the selection does not hold.             *)
(***************************************************************************)
\* some slot of p holds an identity outside the selection sel
HoldsUnselected(p, sel) ==
    \E idx \in Slots : p[idx] # null /\ ~isSelected(sel, p[idx])

\* one identity occupies two slots of p
HoldsDuplicate(p) ==
    \E i, j \in Slots : i # j /\ p[i] # null /\ p[i] = p[j]

\* C21: for a placement in which some slot holds an identity outside the
\* selection, or one identity occupies two slots, validateBoard returns a
\* non-empty list.
C21_ValidatorRejectsForeignCard ==
    (HoldsUnselected(candidate, selectedIds) \/ HoldsDuplicate(candidate))
        => Len(candErrors) # 0

(***************************************************************************)
(* The placement rules on the picker's board, under Spec.                  *)
(***************************************************************************)
\* C22: in every state of the picker no two C cards of state.placements
\* are on slots that share a grid edge.
C22_NoAdjacentC == ~CShareEdge(placements)

\* C01 and C02 are both on the board, placed by hand around slot 1
C22_Witness ==
    /\ session.grid = {"C01", "C02", "D01"}
    /\ placements[0] = "C01"
    /\ placements[6] = "C02"

\* C23: in every state of the picker no D card of state.placements is on
\* slot 0, 4, 20 or 24.
C23_NoDOnCorner == ~DOnCorner(placements)

\* D01 was placed by hand next to the corner, which holds a C card
C23_Witness ==
    /\ session.grid = {"C01", "C02", "D01"}
    /\ placements[1] = "D01"
    /\ placements[0] # null

\* the corners that hold a W card are ends of one diagonal
WCornersOnOneDiagonal(p) ==
    \/ Range(existingCorners(p)) \subseteq {0, 24}
    \/ Range(existingCorners(p)) \subseteq {4, 20}

\* C26: in mode center+diagonal a placeCardAt call that canPlaceCardAt
\* accepts never leads from a board whose W corners are ends of one
\* diagonal to a board with W cards on two corners that are not.
C26_DiagonalCornersKept ==
    [][\A idx \in session.slots :
          (/\ getWMode(tier, variantW).mode = "center+diagonal"
           /\ WCornersOnOneDiagonal(placements)
           /\ PlaceCardAt(idx))
              => WCornersOnOneDiagonal(placements')]_vars

\* C27: state.activeCardId is null or the id of a card that is selected and
\* not on the board.
C27_ActiveCardSelectedUnplaced ==
    activeCardId # null =>
        /\ isSelected(selectedIds, activeCardId)
        /\ ~isPlaced(placements, activeCardId)

\* a card is active while another card of the same list is on the board
C27_Witness ==
    /\ activeCardId = "W02"
    /\ placements[12] = "W01"
    /\ isSelected(selectedIds, "C01")

(***************************************************************************)
(* The order of the list validateBoard returns, under SpecVal.             *)
(***************************************************************************)
\* the messages of errs come in non-decreasing rank
InRankOrder(errs, rank) ==
    \A i, j \in DOMAIN errs : i < j => rank[errs[i]] <= rank[errs[j]]

AllMsgs == WildMsgs \cup {MsgIncomplete, MsgDCorner, MsgCAdjacent}

\* the order of the claim: every Wild count/position message before the
\* centre message
RankWildBeforeCentre ==
    [msg \in AllMsgs |->
        CASE msg = MsgIncomplete -> 1
          [] msg \in WildCountPositionMsgs -> 2
          [] msg = MsgCenterNotW -> 3
          [] msg = MsgDCorner -> 4
          [] msg = MsgCAdjacent -> 5]

\* the order of the pushes of lines 674-722
RankOfPush ==
    [msg \in AllMsgs |->
        CASE msg = MsgIncomplete -> 1
          [] msg = MsgWCount -> 2
          [] msg = MsgCenterNotW -> 3
          [] msg = MsgWPosition -> 4
          [] msg \in {MsgWOneCorner, MsgWTwoCorners, MsgWDiagonal} -> 5
          [] msg = MsgDCorner -> 6
          [] msg = MsgCAdjacent -> 7]

\* C24 as stated: the list has the completeness violation first, then every
\* Wild count/position violation, then the centre-not-Wild violation, then
\* the D corner violations, then the C adjacency violation.
C24_WildBeforeCentre == InRankOrder(candErrors, RankWildBeforeCentre)

\* C24 as amended: the list has the completeness violation first, then the
\* Wild count violation, then the centre-not-Wild violation, then the Wild
\* position violations, then the corner-rule violation of the wild mode,
\* then the D corner violations, then the C adjacency violation.
C24_OrderOfPushes == InRankOrder(candErrors, RankOfPush)

\* a list that holds the count, the centre and a position message
C24_Witness ==
    /\ MsgWCount \in Range(candErrors)
    /\ MsgCenterNotW \in Range(candErrors)
    /\ MsgWPosition \in Range(candErrors)

(***************************************************************************)
(* Specification SpecLoads: the boards page's loadBoards runs.  init       *)
(* starts the first run and the interval timer starts the later ones; a    *)
(* run is suspended at each await, and the fetches settle in any order.    *)
(* loads.runs[r].pc is the await run r is suspended at: "boards" (the      *)
(* boards fetch), "deck" (applyLabelMapIfNeeded, itself suspended at       *)
(* await loadCardDeck()), "tier" (loadTierFallback), "progress" (the       *)
(* progress fetch), or "done"; loads.runs[r].data is the boards document   *)
(* the run received.  loads.deckWaiters lists the runs at "deck" in the    *)
(* order of their calls.  An await of a call that does not wait for a      *)
(* fetch is resumed before any other callback, so a run whose document     *)
(* needs no deck, or that finds the deck settled, goes on to line 382 in   *)
(* the step its boards fetch settles in.  allBoards is written as the run  *)
(* whose boards it holds and the cells of these boards; the progress file  *)
(* run r receives lists the players ProgressPlayers(r); progressLookup     *)
(* maps a player to the run whose data it holds for him, 0 for no entry.   *)
(***************************************************************************)
MaxLoads == 3

\* the players of the progress file at the time of run r: p2 is listed at
\* the first load only
ProgressPlayers(r) == IF r = 1 THEN {"p1", "p2"} ELSE {"p1"}

\* progressLookup as run r alone would leave it
LookupOfRun(r) == [n \in Players |-> IF n \in ProgressPlayers(r) THEN r ELSE 0]

\* a run that has not received its boards document
NoDocument ==
    [label_map_applied |-> FALSE, code_basis |-> null,
     label_map_seed |-> <<>>, cells |-> <<>>]

\* the boards documents a fetch may bring: one with labels for codes, one
\* the server has already mapped
LoadsData ==
    { [label_map_applied |-> FALSE, code_basis |-> null,
       label_map_seed |-> <<>>,
       cells |-> << CellOf("A01"), CellOf("A02"), CellOf("A03") >>],
      [label_map_applied |-> TRUE, code_basis |-> "actual",
       label_map_seed |-> <<48>>, cells |-> << CellOf("A01") >>] }

\* what the deck file parses to: nothing (also after a failed fetch), or a
\* deck
LoadsDecks == { <<>>, <<"A01", "A02", "A03">> }

\* a run suspended at pc
LoadRun(pc, data) == [pc |-> pc, ok |-> TRUE, data |-> data]

\* line 381: boardsJson.boards of run r
BoardsOf(r, data) == [run |-> r, cells |-> data.cells]

InitLoads ==
    /\ tier = "beginner"
    /\ variantW = TRUE
    /\ selectedIds = <<>>
    /\ placements = EmptyBoard
    /\ activeCardId = null
    /\ sent = <<>>
    /\ session = NoSession
    /\ candidate = EmptyBoard
    /\ candErrors = <<>>
    /\ edits = 0
    /\ genResult = <<>>
    /\ cards = <<>>
    /\ labelSeed = SEASON_SEED
    /\ NoLabelMap
    /\ gen = NoGen
    /\ NoDashboard
    /\ form = NoForm
    /\ loads = [NoLoads EXCEPT !.runs = <<LoadRun("boards", NoDocument)>>]
    /\ deckLoad = NoDeckLoad
    /\ submits = NoSubmits

LoadsFrame ==
    UNCHANGED <<tier, variantW, selectedIds, placements, activeCardId, sent,
                candidate, candErrors, edits, genResult, session,
                cards, labelSeed, prevLabelMap, gen, applied, form,
                deckLoad, submits>>

\* line 426: the interval timer calls loadBoards
StartLoad ==
    /\ Len(loads.runs) < MaxLoads
    /\ loads' = [loads EXCEPT
                    !.runs = Append(loads.runs, LoadRun("boards", NoDocument))]
    /\ UNCHANGED <<cardDeck, cardDeckPromise, labelMapCache, labelMap>>
    /\ LoadsFrame

\* lines 364-382: the boards fetch of run r settles.  With an error the
\* catch of line 419 ends the run.  With a document applyLabelMapIfNeeded
\* is called: a call that needs no deck or finds it settled returns with
\* the document rewritten, allBoards is assigned and loadTierFallback is
\* called; any other call waits for the deck, which the first one fetches
\* (lines 121-122)
BoardsSettle(r, ok, data) ==
    /\ r \in DOMAIN loads.runs
    /\ loads.runs[r].pc = "boards"
    /\ IF ~ok
       THEN /\ loads' = [loads EXCEPT
                            !.runs[r] = [pc |-> "done", ok |-> FALSE,
                                         data |-> NoDocument]]
            /\ UNCHANGED <<cardDeck, cardDeckPromise, labelMapCache, labelMap>>
       ELSE IF skipsLabelMap(data) \/ cardDeckPromise = "settled"
       THEN \E run \in {applyLabelMapIfNeeded(labelMapCache, cardDeck, data)} :
                /\ labelMapCache' = run.cache
                /\ labelMap' = IF run.call = <<>> THEN labelMap ELSE run.call
                /\ loads' = [loads EXCEPT
                                !.runs[r] = LoadRun("tier", run.after),
                                !.allBoards = BoardsOf(r, run.after)]
                /\ UNCHANGED <<cardDeck, cardDeckPromise>>
       ELSE /\ cardDeckPromise' = "pending"
            /\ loads' = [loads EXCEPT
                            !.runs[r] = LoadRun("deck", data),
                            !.deckWaiters = Append(loads.deckWaiters, r)]
            /\ UNCHANGED <<cardDeck, labelMapCache, labelMap>>
    /\ LoadsFrame

\* the runs of waiters at "tier", each with its document as its
\* applyLabelMapIfNeeded call left it
RECURSIVE runsResumed(_, _, _, _)
runsResumed(runs, waiters, returned, i) ==
    IF i > Len(waiters) THEN runs
    ELSE runsResumed([runs EXCEPT
                         ![waiters[i]] = LoadRun("tier", returned[i].after)],
                     waiters, returned, i + 1)

\* lines 122-133, 214-252 and 381-382: the deck fetch settles, parsed is
\* what the file yields; the applyLabelMapIfNeeded calls suspended at line
\* 213 continue in call order, and each run then assigns allBoards and
\* calls loadTierFallback
DeckSettles(parsed) ==
    /\ cardDeckPromise = "pending"
    /\ cardDeckPromise' = "settled"
    /\ cardDeck' = parsed
    /\ \E end \in {resumeCalls([i \in DOMAIN loads.deckWaiters |->
                                   loads.runs[loads.deckWaiters[i]]],
                               parsed,
                               [i |-> 1, cache |-> labelMapCache,
                                returned |-> <<>>, labelMap |-> labelMap])} :
           /\ labelMapCache' = end.cache
           /\ labelMap' = end.labelMap
           /\ loads' = [loads EXCEPT
                           !.runs = runsResumed(loads.runs, loads.deckWaiters,
                                                end.returned, 1),
                           !.deckWaiters = <<>>,
                           !.allBoards =
                               BoardsOf(loads.deckWaiters[Len(loads.deckWaiters)],
                                        end.returned[Len(end.returned)].after)]
    /\ LoadsFrame

\* lines 382-392: loadTierFallback returns; progressLookup is replaced by an
\* empty one and the progress fetch starts (tierLookup and the tier labels
\* of lines 383-389 are not kept)
TierSettles(r) ==
    /\ r \in DOMAIN loads.runs
    /\ loads.runs[r].pc = "tier"
    /\ loads' = [loads EXCEPT !.runs[r].pc = "progress",
                              !.progressLookup = EmptyLookup]
    /\ UNCHANGED <<cardDeck, cardDeckPromise, labelMapCache, labelMap>>
    /\ LoadsFrame

\* lines 393-417: the progress fetch of run r settles; its players are set
\* in the progressLookup of that moment, or the catch of line 411 replaces
\* progressLookup by an empty one
ProgressSettles(r, ok) ==
    /\ r \in DOMAIN loads.runs
    /\ loads.runs[r].pc = "progress"
    /\ loads' = [loads EXCEPT
                    !.runs[r].pc = "done",
                    !.runs[r].ok = ok,
                    !.progressLookup =
                        IF ok
                        THEN [n \in Players |->
                                 IF n \in ProgressPlayers(r) THEN r
                                 ELSE loads.progressLookup[n]]
                        ELSE EmptyLookup]
    /\ UNCHANGED <<cardDeck, cardDeckPromise, labelMapCache, labelMap>>
    /\ LoadsFrame

NextLoads ==
    \/ StartLoad
    \/ \E r \in 1 .. MaxLoads, ok \in BOOLEAN, data \in LoadsData :
          BoardsSettle(r, ok, data)
    \/ \E parsed \in LoadsDecks : DeckSettles(parsed)
    \/ \E r \in 1 .. MaxLoads : TierSettles(r)
    \/ \E r \in 1 .. MaxLoads, ok \in BOOLEAN : ProgressSettles(r, ok)

SpecLoads == InitLoads /\ [][NextLoads]_vars

\* every run that was started has finished, and the last one without error
LoadsFinished ==
    /\ \A r \in DOMAIN loads.runs : loads.runs[r].pc = "done"
    /\ loads.runs[Len(loads.runs)].ok

\* C28: once all of several overlapping loadBoards runs have finished,
\* allBoards and progressLookup hold the data of the run that started last.
C28_LastStartedRunWins ==
    LoadsFinished =>
        /\ loads.allBoards = BoardsOf(Len(loads.runs),
                                      loads.runs[Len(loads.runs)].data)
        /\ loads.progressLookup = LookupOfRun(Len(loads.runs))

(***************************************************************************)
(* Specification SpecDeck: loadCardDeck calls on the boards page.          *)
(* deckLoad.cardDeckPromise is NoPromise, Pending or Settled(v); a deck    *)
(* object is DeckOf(n), n the number of the fetch whose text it was parsed *)
(* from (parseCardDeck returns a new Map, which is truthy also when        *)
(* empty).  deckLoad.calls holds, per call, the promise the async function *)
(* returned.                                                               *)
(***************************************************************************)
MaxDeckCalls == 5

InitDeck ==
    /\ tier = "beginner"
    /\ variantW = TRUE
    /\ selectedIds = <<>>
    /\ placements = EmptyBoard
    /\ activeCardId = null
    /\ sent = <<>>
    /\ session = NoSession
    /\ candidate = EmptyBoard
    /\ candErrors = <<>>
    /\ edits = 0
    /\ genResult = <<>>
    /\ cards = <<>>
    /\ labelSeed = SEASON_SEED
    /\ NoLabelMap
    /\ gen = NoGen
    /\ NoDashboard
    /\ form = NoForm
    /\ loads = NoLoads
    /\ deckLoad = NoDeckLoad
    /\ submits = NoSubmits

DeckFrame ==
    UNCHANGED <<tier, variantW, selectedIds, placements, activeCardId, sent,
                candidate, candErrors, edits, genResult, session,
                cards, labelSeed, cardDeck, labelMap, prevLabelMap, gen,
                labelMapCache, cardDeckPromise, applied, form,
                loads, submits>>

\* lines 120-136: a call up to its return
LoadCardDeck ==
    /\ Len(deckLoad.calls) < MaxDeckCalls
    /\ deckLoad' =
          IF deckLoad.cardDeckCache # NullDeck
          THEN [deckLoad EXCEPT
                   !.calls = Append(deckLoad.calls,
                                    Settled(deckLoad.cardDeckCache))]
          ELSE IF deckLoad.cardDeckPromise = NoPromise
          THEN [deckLoad EXCEPT
                   !.cardDeckPromise = Pending,
                   !.fetches = deckLoad.fetches + 1,
                   !.calls = Append(deckLoad.calls, Pending)]
          ELSE [deckLoad EXCEPT !.calls = Append(deckLoad.calls, Pending)]
    /\ DeckFrame

DeckFetchSettlesForgetsFailure(ok) ==
    /\ deckLoad.cardDeckPromise = Pending
    /\ deckLoad' =
          IF ok
          THEN [deckLoad EXCEPT
                   !.cardDeckCache = DeckOf(deckLoad.fetches),
                   !.cardDeckPromise = Settled(DeckOf(deckLoad.fetches))]
          ELSE [deckLoad EXCEPT
                   !.cardDeckCache = NullDeck,
                   !.cardDeckPromise = NoPromise,
                   !.calls = [i \in DOMAIN deckLoad.calls |-> Settled(NullDeck)]]
    /\ DeckFrame

\* lines 122-133: the fetch settles and the chain of then/catch runs
DeckFetchSettles(ok) ==
    /\ deckLoad.cardDeckPromise = Pending
    /\ deckLoad' =
          IF ok
          THEN [deckLoad EXCEPT
                   !.cardDeckCache = DeckOf(deckLoad.fetches),
                   !.cardDeckPromise = Settled(DeckOf(deckLoad.fetches))]
          ELSE [deckLoad EXCEPT !.cardDeckCache = NullDeck,
                                !.cardDeckPromise = Settled(NullDeck)]
    /\ DeckFrame

\* line 135: the promise of call i follows the settled cardDeckPromise
DeckCallResolves(i) ==
    /\ i \in DOMAIN deckLoad.calls
    /\ deckLoad.calls[i] = Pending
    /\ deckLoad.cardDeckPromise.state = "settled"
    /\ deckLoad' = [deckLoad EXCEPT !.calls[i] = deckLoad.cardDeckPromise]
    /\ DeckFrame

NextDeck ==
    \/ LoadCardDeck
    \/ \E ok \in BOOLEAN : DeckFetchSettles(ok)
    \/ \E i \in 1 .. MaxDeckCalls : DeckCallResolves(i)

SpecDeck == InitDeck /\ [][NextDeck]_vars

\* C29: whatever the number and the overlap of the loadCardDeck calls, the
\* deck file is fetched at most once; the calls that resolve all resolve
\* to the same value, the one deck object of that fetch, and once the
\* fetch has failed every call resolves to null.
C29_OneFetchOneDeck ==
    /\ deckLoad.fetches <= 1
    /\ \A i, j \in DOMAIN deckLoad.calls :
          (deckLoad.calls[i] # Pending /\ deckLoad.calls[j] # Pending)
              => deckLoad.calls[i] = deckLoad.calls[j]
    /\ \A i \in DOMAIN deckLoad.calls :
          deckLoad.calls[i] # Pending =>
              /\ deckLoad.calls[i] = deckLoad.cardDeckPromise
              /\ deckLoad.calls[i].value = deckLoad.cardDeckCache
              /\ deckLoad.calls[i].value \in {NullDeck, DeckOf(1)}

\* the fetch failed while two calls were waiting, and a call made after
\* the failure has resolved to null
C29_Witness ==
    /\ deckLoad.cardDeckPromise = Settled(NullDeck)
    /\ Len(deckLoad.calls) = 3
    /\ \A i \in 1 .. 3 : deckLoad.calls[i] = Settled(NullDeck)
    /\ deckLoad.fetches = 1

(***************************************************************************)
(* Specification SpecSend: submit events on forms that pass the checks or  *)
(* lack the screenshot, with and without group names, also while runs wait *)
(* for the tier index.                                                     *)
(***************************************************************************)
\* "A02"
ValidClaim == <<65, 48, 50>>

\* the forms of a behaviour: with the claim "A02" or none, with the token
\* event seal or none, with and without a screenshot, with any of the group
\* names texts, an address stored
SendForms ==
    { [claims |-> <<c>>, tokenEvent |-> e, apiBase |-> <<104>>, files |-> f,
       groupNames |-> g] :
          c \in {<<>>, ValidClaim}, e \in {<<>>, SEAL}, f \in BOOLEAN,
          g \in GroupTexts }

InitSend ==
    /\ tier = "beginner"
    /\ variantW = TRUE
    /\ selectedIds = <<>>
    /\ placements = EmptyBoard
    /\ activeCardId = null
    /\ sent = <<>>
    /\ session = NoSession
    /\ candidate = EmptyBoard
    /\ candErrors = <<>>
    /\ edits = 0
    /\ genResult = <<>>
    /\ cards = <<>>
    /\ labelSeed = SEASON_SEED
    /\ NoLabelMap
    /\ gen = NoGen
    /\ NoDashboard
    /\ form \in SendForms
    /\ NoAsync

NextSend ==
    \/ SubmitEvent
    \/ \E promise \in TierIndexOutcomes : TierIndexSettles(promise)
    \/ \E r \in 1 .. MaxSubmits, ok \in BOOLEAN : PostSettles(r, ok)
    \/ \E text \in GroupTexts : EditGroupNames(text)
    \/ ToggleFiles

SpecSend == InitSend /\ [][NextSend]_vars

\* the runs whose POST is in flight
InFlight == {r \in DOMAIN submits.runs : submits.runs[r].pc = "posting"}

\* C30: at most one submission POST is in flight at any time, also when
\* runs await the tier index, and the submit button is enabled whenever no
\* request is in flight.
C30_OnePostInFlight ==
    /\ Cardinality(InFlight) <= 1
    /\ InFlight = {} => ~submits.disabled

====
